---- MODULE Spec2Model ----
(***************************************************************************)
(* Second Brain: the text-annotation engine (wiki links, annotation        *)
(* parser, weekly summary, voice transcript structurer).                   *)
(*                                                                         *)
(* A JavaScript string is a sequence of one-character strings.  Offsets    *)
(* kept in results (match.index, start, end, lastIndex) are the 0-based    *)
(* JavaScript offsets; positions used inside the scanners are 1-based.     *)
(***************************************************************************)
EXTENDS Integers, Sequences, FiniteSets, TLC

VARIABLES memories, typed, now, out

vars == <<memories, typed, now, out>>

(***************************************************************************)
(* Characters and strings                                                  *)
(***************************************************************************)

LowerOf ==
  [A |-> "a", B |-> "b", C |-> "c", D |-> "d", E |-> "e", F |-> "f", G |-> "g",
   H |-> "h", I |-> "i", J |-> "j", K |-> "k", L |-> "l", M |-> "m", N |-> "n",
   O |-> "o", P |-> "p", Q |-> "q", R |-> "r", S |-> "s", T |-> "t", U |-> "u",
   V |-> "v", W |-> "w", X |-> "x", Y |-> "y", Z |-> "z"]

UpperChars == DOMAIN LowerOf

LowerChars == {LowerOf[c] : c \in UpperChars}

DigitChars == {"0", "1", "2", "3", "4", "5", "6", "7", "8", "9"}

SpaceChars == {" ", "\n", "\t"}

IsUpper(c) == c \in UpperChars

IsLower(c) == c \in LowerChars

IsLetter(c) == IsUpper(c) \/ IsLower(c)

IsSpace(c) == c \in SpaceChars

IsTagChar(c) == IsLetter(c) \/ c \in DigitChars \/ c \in {"_", "-"}

lowerChar(c) == IF c \in UpperChars THEN LowerOf[c] ELSE c

toLowerCase(s) == [i \in 1..Len(s) |-> lowerChar(s[i])]

Range(s) == {s[i] : i \in 1..Len(s)}

Min(S) == CHOOSE x \in S : \A y \in S : x <= y

Max(S) == CHOOSE x \in S : \A y \in S : x >= y

\* pat occurs in s at the 1-based position i
OccursAt(s, pat, i) ==
  /\ i >= 1
  /\ i + Len(pat) - 1 <= Len(s)
  /\ \A k \in 1..Len(pat) : s[i + k - 1] = pat[k]

\* 1-based position of the first occurrence of pat in s at or after from, 0 if none
indexFrom(s, pat, from) ==
  LET hits == {i \in from..(Len(s) + 1) : OccursAt(s, pat, i)}
  IN  IF hits = {} THEN 0 ELSE Min(hits)

includes(s, pat) == indexFrom(s, pat, 1) # 0

trim(s) ==
  LET keep == {i \in 1..Len(s) : ~IsSpace(s[i])}
  IN  IF keep = {} THEN <<>> ELSE SubSeq(s, Min(keep), Max(keep))

substring(s, from, to) == SubSeq(s, from + 1, IF to > Len(s) THEN Len(s) ELSE to)

RECURSIVE DedupeFrom(_, _, _)
DedupeFrom(s, i, acc) ==
  IF i > Len(s) THEN acc
  ELSE DedupeFrom(s, i + 1, IF s[i] \in Range(acc) THEN acc ELSE Append(acc, s[i]))

\* [...new Set(list)] and Array.from(set): first occurrences, in insertion order
Dedupe(s) == DedupeFrom(s, 1, <<>>)

\* regex.exec loop of a global regex: endAt[i] is the position after the match
\* that starts at i (0 when the pattern does not match at i)
RECURSIVE ScanFrom(_, _)
ScanFrom(endAt, pos) ==
  LET starts == {i \in pos..Len(endAt) : endAt[i] # 0}
  IN  IF starts = {} THEN <<>>
      ELSE LET i == Min(starts)
           IN  <<[start |-> i, end |-> endAt[i]]>> \o ScanFrom(endAt, endAt[i])

ScanAll(endAt) == ScanFrom(endAt, 1)

RECURSIVE Concat(_)
Concat(parts) == IF parts = <<>> THEN <<>> ELSE Head(parts) \o Concat(Tail(parts))

\* the input text: the pieces typed or dictated so far, joined
Text == Concat(typed)

RemoveAt(s, i) == SubSeq(s, 1, i - 1) \o SubSeq(s, i + 1, Len(s))

(***************************************************************************)
(* wiki-links.ts                                                           *)
(***************************************************************************)

\* /\[\[([^\]]+)\]\]/ matched at position i: position after the match, or 0
WikiEndAt(s, i) ==
  IF ~OccursAt(s, <<"[", "[">>, i) THEN 0
  ELSE LET close == {j \in (i + 2)..Len(s) : s[j] = "]"}
       IN  IF close = {} THEN 0
           ELSE LET j == Min(close)
                IN  IF j > i + 2 /\ j + 1 <= Len(s) /\ s[j + 1] = "]"
                    THEN j + 2 ELSE 0

WikiMatches(s) == ScanAll([i \in 1..Len(s) |-> WikiEndAt(s, i)])

\* extractWikiLinks returning every mention, without the Set
extractWikiLinks_everyMention(content) ==
  LET ms == WikiMatches(content)
  IN  [k \in 1..Len(ms) |-> trim(SubSeq(content, ms[k].start + 2, ms[k].end - 3))]

extractWikiLinks(content) ==
  LET ms == WikiMatches(content)
  IN  Dedupe([k \in 1..Len(ms) |-> trim(SubSeq(content, ms[k].start + 2, ms[k].end - 3))])

\* the source of the regex built from the title: escapeRegex makes every
\* character of the title a literal
TokenOf(targetTitle) == <<"[", "[">> \o targetTitle \o <<"]", "]">>

\* RegExp.prototype.test of a global, case-insensitive literal regex: the search
\* starts at lastIndex; a hit leaves lastIndex after the match, a miss resets it
RegexTest(tokenLower, content, lastIndex) ==
  LET at == IF lastIndex > Len(content) THEN 0
            ELSE indexFrom(toLowerCase(content), tokenLower, lastIndex + 1)
  IN  IF at = 0 THEN [found |-> FALSE, lastIndex |-> 0]
      ELSE [found |-> TRUE, lastIndex |-> at - 1 + Len(tokenLower)]

ContextWindow == 100

\* first match of (.{0,100}\[\[title\]\].{0,100}), trimmed
FirstContext(tokenLower, content) ==
  LET low == toLowerCase(content)
      n == Len(content)
      NoBreak(a, b) == \A k \in a..b : content[k] # "\n"
      Hits(p) == {q \in p..(IF p + ContextWindow > n THEN n ELSE p + ContextWindow) :
                    OccursAt(low, tokenLower, q) /\ NoBreak(p, q - 1)}
      starts == {p \in 1..n : Hits(p) # {}}
  IN  IF starts = {} THEN <<>>
      ELSE LET p == Min(starts)
               q == Max(Hits(p))
               e == q + Len(tokenLower)
               tails == {t \in 0..ContextWindow : e + t - 1 <= n /\ NoBreak(e, e + t - 1)}
           IN  trim(SubSeq(content, p, e + Max(tails) - 1))

RECURSIVE BacklinksFrom(_, _, _, _, _)
BacklinksFrom(targetTitle, mems, i, lastIndex, acc) ==
  IF i > Len(mems) THEN acc
  ELSE LET tokenLower == toLowerCase(TokenOf(targetTitle))
           t == RegexTest(tokenLower, mems[i].content, lastIndex)
           ctx == FirstContext(tokenLower, mems[i].content)
           link == [sourceMemory |-> mems[i].name,
                    sourcePath |-> mems[i].path,
                    context |-> IF ctx # <<>> THEN ctx
                                ELSE <<"L", "i", "n", "k", "s", " ", "t", "o", " ">>
                                     \o TokenOf(targetTitle),
                    lastModified |-> mems[i].lastModified]
       IN  BacklinksFrom(targetTitle, mems, i + 1, t.lastIndex,
                         IF t.found THEN Append(acc, link) ELSE acc)

findBacklinks(targetTitle, mems) == BacklinksFrom(targetTitle, mems, 1, 0, <<>>)

\* the predicate of memories.find in findForwardLinks
ForwardMatch(name, title) ==
  LET nameLower == toLowerCase(name)
      titleLower == toLowerCase(title)
  IN  \/ nameLower = titleLower
      \/ includes(nameLower, titleLower)
      \/ includes(titleLower, nameLower)

\* Array.prototype.find over the indexes that satisfy its predicate: the first, 0 if none
FirstOf(idx) == IF idx = {} THEN 0 ELSE Min(idx)

\* findForwardLinks with the last matching note taken instead of the first
findForwardLinks_lastMatch(content, mems) ==
  LET links == extractWikiLinks(content)
      One(title) ==
        LET hits == {i \in 1..Len(mems) : ForwardMatch(mems[i].name, title)}
            m == IF hits = {} THEN 0 ELSE Max(hits)
        IN  [title |-> title,
             exists |-> m # 0,
             path |-> IF m # 0 THEN mems[m].path ELSE <<>>]
  IN  [k \in 1..Len(links) |-> One(links[k])]

findForwardLinks(content, mems) ==
  LET links == extractWikiLinks(content)
      One(title) ==
        LET m == FirstOf({i \in 1..Len(mems) : ForwardMatch(mems[i].name, title)})
        IN  [title |-> title,
             exists |-> m # 0,
             path |-> IF m # 0 THEN mems[m].path ELSE <<>>]
  IN  [k \in 1..Len(links) |-> One(links[k])]

\* the predicate of memories.find in buildLinkGraph and of memories.some in getLinkStats
GraphMatch(name, link) ==
  \/ toLowerCase(name) = toLowerCase(link)
  \/ includes(toLowerCase(name), toLowerCase(link))

VirtualId(link) == <<"v", "i", "r", "t", "u", "a", "l", ":">> \o link

RECURSIVE GraphLinks(_, _, _, _, _)
GraphLinks(mems, m, links, k, g) ==
  IF k > Len(links) THEN g
  ELSE LET link == links[k]
           target == FirstOf({i \in 1..Len(mems) : GraphMatch(mems[i].name, link)})
           virtualId == VirtualId(link)
           known == \E n \in 1..Len(g.nodes) : g.nodes[n].id = virtualId
       IN  IF target # 0
           THEN GraphLinks(mems, m, links, k + 1,
                  [nodes |-> g.nodes,
                   edges |-> Append(g.edges, [source |-> mems[m].path,
                                              target |-> mems[target].path])])
           ELSE GraphLinks(mems, m, links, k + 1,
                  [nodes |-> IF known THEN g.nodes
                             ELSE Append(g.nodes, [id |-> virtualId, label |-> link]),
                   edges |-> Append(g.edges, [source |-> mems[m].path,
                                              target |-> virtualId])])

RECURSIVE GraphFrom(_, _, _)
GraphFrom(mems, m, g) ==
  IF m > Len(mems) THEN g
  ELSE GraphFrom(mems, m + 1,
         GraphLinks(mems, m, extractWikiLinks(mems[m].content), 1,
           [nodes |-> Append(g.nodes, [id |-> mems[m].path, label |-> mems[m].name]),
            edges |-> g.edges]))

buildLinkGraph(mems) == GraphFrom(mems, 1, [nodes |-> <<>>, edges |-> <<>>])

(***************************************************************************)
(* Count maps: a Record<string, number> built by                           *)
(*   counts[k] = (counts[k] || 0) + 1                                      *)
(* kept as the sequence of its [name, count] entries in insertion order.   *)
(* The record is an object literal {}: a key it does not own is read from  *)
(* Object.prototype.                                                       *)
(***************************************************************************)

KeyIndex(counts, key) ==
  LET idx == {i \in 1..Len(counts) : counts[i].name = key}
  IN  IF idx = {} THEN 0 ELSE Min(idx)

\* the methods every object inherits from Object.prototype: read under such a
\* key, a record that does not own the key answers the method
InheritedMethods ==
  { <<"c", "o", "n", "s", "t", "r", "u", "c", "t", "o", "r">>,
    <<"_", "_", "d", "e", "f", "i", "n", "e", "G", "e", "t", "t", "e", "r", "_", "_">>,
    <<"_", "_", "d", "e", "f", "i", "n", "e", "S", "e", "t", "t", "e", "r", "_", "_">>,
    <<"h", "a", "s", "O", "w", "n", "P", "r", "o", "p", "e", "r", "t", "y">>,
    <<"_", "_", "l", "o", "o", "k", "u", "p", "G", "e", "t", "t", "e", "r", "_", "_">>,
    <<"_", "_", "l", "o", "o", "k", "u", "p", "S", "e", "t", "t", "e", "r", "_", "_">>,
    <<"i", "s", "P", "r", "o", "t", "o", "t", "y", "p", "e", "O", "f">>,
    <<"p", "r", "o", "p", "e", "r", "t", "y", "I", "s", "E", "n", "u", "m", "e", "r", "a", "b", "l", "e">>,
    <<"t", "o", "S", "t", "r", "i", "n", "g">>,
    <<"v", "a", "l", "u", "e", "O", "f">>,
    <<"t", "o", "L", "o", "c", "a", "l", "e", "S", "t", "r", "i", "n", "g">> }

\* the accessor every object inherits: read, it answers Object.prototype;
\* written with a value that is no object, it keeps nothing
ProtoKey == <<"_", "_", "p", "r", "o", "t", "o", "_", "_">>

\* a count that is a text and no number: a method or Object.prototype, "+ 1",
\* is the text of it followed by "1"; as a number it is NaN
NotANumber == 0 - 1

\* counts[key] = (counts[key] || 0) + 1
Increment(counts, key) ==
  LET i == KeyIndex(counts, key)
  IN  IF i # 0
      THEN [counts EXCEPT ![i].count = IF @ = NotANumber THEN NotANumber ELSE @ + 1]
      ELSE IF key = ProtoKey THEN counts
      ELSE IF key \in InheritedMethods
           THEN Append(counts, [name |-> key, count |-> NotANumber])
           ELSE Append(counts, [name |-> key, count |-> 1])

RECURSIVE IncrementAll(_, _, _)
IncrementAll(counts, keys, k) ==
  IF k > Len(keys) THEN counts
  ELSE IncrementAll(Increment(counts, keys[k]), keys, k + 1)

DigitValue ==
  [c \in DigitChars |->
     CASE c = "0" -> 0 [] c = "1" -> 1 [] c = "2" -> 2 [] c = "3" -> 3 [] c = "4" -> 4
       [] c = "5" -> 5 [] c = "6" -> 6 [] c = "7" -> 7 [] c = "8" -> 8 [] c = "9" -> 9]

RECURSIVE NumberOf(_, _)
NumberOf(key, n) ==
  IF n = 0 THEN 0 ELSE 10 * NumberOf(key, n - 1) + DigitValue[key[n]]

\* an integer-like key ("0", "7", "42"): own properties with such keys are
\* enumerated first, in ascending numeric order
IsIndexKey(key) ==
  /\ Len(key) >= 1
  /\ Len(key) <= 9
  /\ \A i \in 1..Len(key) : key[i] \in DigitChars
  /\ (Len(key) > 1 => key[1] # "0")

RECURSIVE InsertKeyed(_, _)
\* e inserted into the key-ascending sequence s behind every element whose key
\* is not larger (so equal keys keep their order)
InsertKeyed(s, e) ==
  IF s = <<>> THEN <<e>>
  ELSE IF e.key < Head(s).key THEN <<e>> \o s
       ELSE <<Head(s)>> \o InsertKeyed(Tail(s), e)

RECURSIVE StableSortKeyed(_, _, _)
StableSortKeyed(s, k, acc) ==
  IF k > Len(s) THEN acc
  ELSE StableSortKeyed(s, k + 1, InsertKeyed(acc, s[k]))

\* Object.entries / Object.keys order: integer-like keys ascending, then the
\* other keys in insertion order
ObjectEntries(counts) ==
  LET IsIdx(e) == IsIndexKey(e.name)
      NotIdx(e) == ~IsIndexKey(e.name)
      idx == SelectSeq(counts, IsIdx)
      keyed == [k \in 1..Len(idx) |->
                  [key |-> NumberOf(idx[k].name, Len(idx[k].name)), val |-> idx[k]]]
      sorted == StableSortKeyed(keyed, 1, <<>>)
  IN  [k \in 1..Len(sorted) |-> sorted[k].val] \o SelectSeq(counts, NotIdx)

\* (a, b) => b.count - a.count, as sort reads it: NaN counts as 0
CompareCounts(a, b) ==
  IF a.count = NotANumber \/ b.count = NotANumber THEN 0 ELSE b.count - a.count

\* the run sort finds at the head of the array: its length, and whether it
\* is strictly descending (it is then reversed)
InitialRun(arr) ==
  LET desc == CompareCounts(arr[2], arr[1]) < 0
      Goes(k) == IF desc THEN CompareCounts(arr[k], arr[k - 1]) < 0
                 ELSE CompareCounts(arr[k], arr[k - 1]) >= 0
  IN  [desc |-> desc,
       len |-> Max({r \in 2..Len(arr) : \A k \in 3..r : Goes(k)})]

Reverse(arr) == [k \in 1..Len(arr) |-> arr[Len(arr) + 1 - k]]

RECURSIVE InsertionPoint(_, _, _, _)
\* binary search in arr[left..right-1] for the place of pivot
InsertionPoint(arr, pivot, left, right) ==
  IF left >= right THEN left
  ELSE LET mid == left + ((right - left) \div 2)
       IN  IF CompareCounts(pivot, arr[mid]) < 0
           THEN InsertionPoint(arr, pivot, left, mid)
           ELSE InsertionPoint(arr, pivot, mid + 1, right)

RECURSIVE BinaryInsertionSort(_, _)
BinaryInsertionSort(arr, start) ==
  IF start > Len(arr) THEN arr
  ELSE LET left == InsertionPoint(arr, arr[start], 1, start)
       IN  BinaryInsertionSort(
             SubSeq(arr, 1, left - 1) \o <<arr[start]>> \o SubSeq(arr, left, start - 1)
               \o SubSeq(arr, start + 1, Len(arr)),
             start + 1)

\* .sort((a, b) => b.count - a.count) as V8 sorts an array of fewer than 64
\* entries: the initial run, then binary insertion of the rest.  By count descending and
\* stable when every count is a number; with a count that is a text the order
\* is the one this run of comparisons leaves.
SortByCountDesc(entries) ==
  IF Len(entries) < 2 THEN entries
  ELSE LET run == InitialRun(entries)
           made == IF run.desc
                   THEN Reverse(SubSeq(entries, 1, run.len))
                        \o SubSeq(entries, run.len + 1, Len(entries))
                   ELSE entries
       IN  BinaryInsertionSort(made, run.len + 1)

slice(s, from, to) == SubSeq(s, from + 1, IF to > Len(s) THEN Len(s) ELSE to)

MostLinkedCap == 10

RECURSIVE LinkCountsFrom(_, _, _)
LinkCountsFrom(mems, m, acc) ==
  IF m > Len(mems) THEN acc
  ELSE LET links == extractWikiLinks(mems[m].content)
       IN  LinkCountsFrom(mems, m + 1,
             [allLinks |-> acc.allLinks \o links,
              linkCounts |-> IncrementAll(acc.linkCounts, links, 1)])

getLinkStats(mems) ==
  LET acc == LinkCountsFrom(mems, 1, [allLinks |-> <<>>, linkCounts |-> <<>>])
      entries == ObjectEntries(acc.linkCounts)
      Orphan(e) == ~\E i \in 1..Len(mems) : GraphMatch(mems[i].name, e.name)
      Entry(e) == [title |-> e.name, count |-> e.count]
      sorted == SortByCountDesc(entries)
  IN  [totalLinks |-> Len(acc.allLinks),
       uniqueTargets |-> Len(entries),
       orphanLinks |-> Len(SelectSeq(entries, Orphan)),
       mostLinked |-> slice([k \in 1..Len(sorted) |-> Entry(sorted[k])], 0, MostLinkedCap)]

(***************************************************************************)
(* The link functions over a note collection                               *)
(***************************************************************************)

MaxNotes == 2

LinkNames == {<<"A">>, <<"A", "B">>, <<"C">>}

LinkBodies ==
  { <<"[", "[", "A", "]", "]">>,
    <<"[", "[", "_", "_", "p", "r", "o", "t", "o", "_", "_", "]", "]">>,
    <<"x", " ", "[", "[", "a", "]", "]">>,
    <<"[", "[", "A", "B", "]", "]", " ", "[", "[", "A", "]", "]">>,
    <<"[", "[", " ", "A", " ", "]", "]", "[", "[", "A", "]", "]">>,
    <<"[", "[", "A", "]">> }

\* path: `memory/${date}.md` for the daily note named date
PathOf(name) == <<"m", "/">> \o name

NoCall == [op |-> "none"]

InitLinks ==
  /\ memories = <<>>
  /\ typed = <<>>
  /\ now = 0
  /\ out = NoCall

UsedNames(mems) == {mems[i].name : i \in 1..Len(mems)}

\* a note is stored: the collection the link functions are given grows (the store
\* keeps one note per name: a date, or the long-term note)
AddMemory ==
  /\ Len(memories) < MaxNotes
  /\ \E name \in LinkNames \ UsedNames(memories), content \in LinkBodies :
       memories' = Append(memories, [name |-> name, path |-> PathOf(name),
                                     content |-> content, lastModified |-> 0])
  /\ out' = NoCall
  /\ UNCHANGED <<typed, now>>

\* a note is deleted from the collection
RemoveMemory ==
  /\ \E i \in 1..Len(memories) : memories' = RemoveAt(memories, i)
  /\ out' = NoCall
  /\ UNCHANGED <<typed, now>>

CallFindBacklinks ==
  /\ \E targetTitle \in LinkNames :
       out' = [op |-> "findBacklinks", arg |-> targetTitle,
               res |-> findBacklinks(targetTitle, memories)]
  /\ UNCHANGED <<memories, typed, now>>

CallFindForwardLinks ==
  /\ \E i \in 1..Len(memories) :
       out' = [op |-> "findForwardLinks", arg |-> i,
               res |-> findForwardLinks(memories[i].content, memories)]
  /\ UNCHANGED <<memories, typed, now>>

CallBuildLinkGraph ==
  /\ out' = [op |-> "buildLinkGraph", res |-> buildLinkGraph(memories)]
  /\ UNCHANGED <<memories, typed, now>>

CallGetLinkStats ==
  /\ out' = [op |-> "getLinkStats", res |-> getLinkStats(memories)]
  /\ UNCHANGED <<memories, typed, now>>

NextLinks ==
  \/ AddMemory
  \/ RemoveMemory
  \/ CallFindBacklinks
  \/ CallFindForwardLinks
  \/ CallBuildLinkGraph
  \/ CallGetLinkStats

SpecLinks == InitLinks /\ [][NextLinks]_vars

(***************************************************************************)
(* Properties of the link functions                                        *)
(***************************************************************************)

\* the body holds the token [[title]], letter case ignored
ContainsToken(content, title) ==
  includes(toLowerCase(content), toLowerCase(TokenOf(title)))

\* C1: findBacklinks returns exactly one Backlink for every note whose body
\* contains [[targetTitle]] (case-insensitively) and none for any other note,
\* also when consecutive notes contain the token.
C1_OneBacklinkPerLinkingNote ==
  out.op = "findBacklinks" =>
    \A i \in 1..Len(memories) :
      Cardinality({k \in 1..Len(out.res) : out.res[k].sourcePath = memories[i].path})
        = IF ContainsToken(memories[i].content, out.arg) THEN 1 ELSE 0

\* the rule the data model gives for a link title matching a note name:
\* equal, or one contained in the other, letter case ignored
TitleMatchesName(title, name) ==
  LET n == toLowerCase(name)
      t == toLowerCase(title)
  IN  n = t \/ includes(n, t) \/ includes(t, n)

\* index of the first note of mems whose name matches title, 0 if none
FirstMatching(title, mems) ==
  FirstOf({i \in 1..Len(mems) : TitleMatchesName(title, mems[i].name)})

ReportsFor(res, title) == {k \in 1..Len(res) : res[k].title = title}

NodeIds(g) == {g.nodes[n].id : n \in 1..Len(g.nodes)}

\* a step that removes note j from the collection
Removes(j) == j \in 1..Len(memories) /\ memories' = RemoveAt(memories, j)

\* C2 as stated: whenever a note's body contains [[T]] and a second note is named
\* exactly T, findForwardLinks reports T as existing with the second note's
\* path; once the second note is removed, findForwardLinks reports exists = false
\* for T and buildLinkGraph has the node virtual:T.
C2_RoundTripAnyCollection ==
  /\ [](out.op = "findForwardLinks" =>
          \A j \in 1..Len(memories), T \in LinkNames :
            ( /\ j # out.arg
              /\ includes(memories[out.arg].content, TokenOf(T))
              /\ memories[j].name = T )
            => \E k \in ReportsFor(out.res, T) :
                 out.res[k].exists /\ out.res[k].path = memories[j].path)
  /\ [][\A i, j \in 1..Len(memories), T \in LinkNames :
          ( /\ i # j
            /\ Removes(j)
            /\ includes(memories[i].content, TokenOf(T))
            /\ memories[j].name = T )
          => /\ \E k \in ReportsFor(findForwardLinks(memories[i].content, memories'), T) :
                  ~findForwardLinks(memories[i].content, memories')[k].exists
             /\ VirtualId(T) \in NodeIds(buildLinkGraph(memories'))]_vars

\* C2 amended: findForwardLinks resolves a linked title T to the first note, in
\* collection order, whose name matches T (so to the note named exactly T when no
\* earlier note matches); once the note named T is removed and no remaining note
\* matches T, exists is false for T and buildLinkGraph has the node virtual:T.
C2_RoundTripFirstMatch ==
  /\ [](out.op = "findForwardLinks" =>
          \A j \in 1..Len(memories), T \in Range(extractWikiLinks(memories[out.arg].content)) :
            (j # out.arg /\ memories[j].name = T)
            => \E k \in ReportsFor(out.res, T) :
                 /\ out.res[k].exists
                 /\ out.res[k].path = memories[FirstMatching(T, memories)].path
                 /\ (FirstMatching(T, memories) = j => out.res[k].path = memories[j].path))
  /\ [][\A i, j \in 1..Len(memories) :
          \A T \in Range(extractWikiLinks(memories[i].content)) :
            ( /\ i # j
              /\ Removes(j)
              /\ memories[j].name = T
              /\ FirstMatching(T, memories') = 0 )
            => /\ \E k \in ReportsFor(findForwardLinks(memories[i].content, memories'), T) :
                    ~findForwardLinks(memories[i].content, memories')[k].exists
               /\ VirtualId(T) \in NodeIds(buildLinkGraph(memories'))]_vars

\* C2 witness: the second note of the collection is named as a title the first
\* note links, no earlier name matches, and findForwardLinks has reported it.
C2_Witness ==
  /\ Len(memories) = 2
  /\ out.op = "findForwardLinks"
  /\ out.arg = 1
  /\ \E k \in 1..Len(out.res) :
       /\ out.res[k].title = memories[2].name
       /\ FirstMatching(out.res[k].title, memories) = 2
       /\ out.res[k].exists
       /\ out.res[k].path = memories[2].path

\* the spec's count of distinct linked titles over the collection
LinkedTitles(mems) == UNION {Range(extractWikiLinks(mems[i].content)) : i \in 1..Len(mems)}

NoTitleMatches(mems) ==
  \A T \in LinkedTitles(mems) : FirstMatching(T, mems) = 0

\* C8: when none of the k distinct linked titles matches a note name,
\* getLinkStats reports orphanLinks = k and uniqueTargets = k; a single note with
\* one such link gives orphanLinks = totalLinks = uniqueTargets = 1.
C8_OrphansCountUnmatchedTitles ==
  (out.op = "getLinkStats" /\ NoTitleMatches(memories)) =>
    /\ out.res.orphanLinks = Cardinality(LinkedTitles(memories))
    /\ out.res.uniqueTargets = Cardinality(LinkedTitles(memories))
    /\ (Len(memories) = 1 /\ Len(WikiMatches(memories[1].content)) = 1
          => out.res.totalLinks = 1 /\ out.res.orphanLinks = 1 /\ out.res.uniqueTargets = 1)

(***************************************************************************)
(* voice-capture.ts                                                        *)
(***************************************************************************)

HasAny(lower, words) == \E w \in words : includes(lower, w)

\* detectMemoryType with the call rung tested before the meeting rung
detectMemoryType_callFirst(t) ==
  LET lower == toLowerCase(t)
  IN  IF HasAny(lower, {<<"c", "a", "l", "l">>, <<"p", "h", "o", "n", "e">>, <<"s", "p", "o", "k", "e", " ", "t", "o">>}) THEN "call"
      ELSE IF HasAny(lower, {<<"m", "e", "e", "t", "i", "n", "g">>, <<"c", "a", "l", "l", " ", "w", "i", "t", "h">>, <<"d", "i", "s", "c", "u", "s", "s", "e", "d", " ", "w", "i", "t", "h">>}) THEN "meeting"
      ELSE IF HasAny(lower, {<<"r", "e", "m", "e", "m", "b", "e", "r">>, <<"r", "e", "m", "i", "n", "d", " ", "m", "e">>, <<"d", "o", "n", "'", "t", " ", "f", "o", "r", "g", "e", "t">>}) THEN "reminder"
      ELSE IF HasAny(lower, {<<"i", "d", "e", "a">>, <<"w", "h", "a", "t", " ", "i", "f">>, <<"m", "a", "y", "b", "e", " ", "w", "e", " ", "c", "o", "u", "l", "d">>}) THEN "idea"
      ELSE "note"

\* detectMemoryType with the idea rung tested before the reminder rung
detectMemoryType_ideaFirst(t) ==
  LET lower == toLowerCase(t)
  IN  IF HasAny(lower, {<<"m", "e", "e", "t", "i", "n", "g">>, <<"c", "a", "l", "l", " ", "w", "i", "t", "h">>, <<"d", "i", "s", "c", "u", "s", "s", "e", "d", " ", "w", "i", "t", "h">>}) THEN "meeting"
      ELSE IF HasAny(lower, {<<"c", "a", "l", "l">>, <<"p", "h", "o", "n", "e">>, <<"s", "p", "o", "k", "e", " ", "t", "o">>}) THEN "call"
      ELSE IF HasAny(lower, {<<"i", "d", "e", "a">>, <<"w", "h", "a", "t", " ", "i", "f">>, <<"m", "a", "y", "b", "e", " ", "w", "e", " ", "c", "o", "u", "l", "d">>}) THEN "idea"
      ELSE IF HasAny(lower, {<<"r", "e", "m", "e", "m", "b", "e", "r">>, <<"r", "e", "m", "i", "n", "d", " ", "m", "e">>, <<"d", "o", "n", "'", "t", " ", "f", "o", "r", "g", "e", "t">>}) THEN "reminder"
      ELSE "note"

detectMemoryType(t) ==
  LET lower == toLowerCase(t)
  IN  IF HasAny(lower, {<<"m", "e", "e", "t", "i", "n", "g">>, <<"c", "a", "l", "l", " ", "w", "i", "t", "h">>, <<"d", "i", "s", "c", "u", "s", "s", "e", "d", " ", "w", "i", "t", "h">>}) THEN "meeting"
      ELSE IF HasAny(lower, {<<"c", "a", "l", "l">>, <<"p", "h", "o", "n", "e">>, <<"s", "p", "o", "k", "e", " ", "t", "o">>}) THEN "call"
      ELSE IF HasAny(lower, {<<"r", "e", "m", "e", "m", "b", "e", "r">>, <<"r", "e", "m", "i", "n", "d", " ", "m", "e">>, <<"d", "o", "n", "'", "t", " ", "f", "o", "r", "g", "e", "t">>}) THEN "reminder"
      ELSE IF HasAny(lower, {<<"i", "d", "e", "a">>, <<"w", "h", "a", "t", " ", "i", "f">>, <<"m", "a", "y", "b", "e", " ", "w", "e", " ", "c", "o", "u", "l", "d">>}) THEN "idea"
      ELSE "note"

(***************************************************************************)
(* detectMemoryType over dictated texts                                    *)
(***************************************************************************)

MaxPhrases == 2

MaxPieces == 3

TypePhrases ==
  { <<"m", "e", "e", "t", "i", "n", "g">>,
    <<"c", "a", "l", "l">>,
    <<"C", "a", "l", "l">>,
    <<" ", "w", "i", "t", "h">>,
    <<"d", "i", "s", "c", "u", "s", "s", "e", "d", " ", "w", "i", "t", "h">>,
    <<"p", "h", "o", "n", "e">>,
    <<"s", "p", "o", "k", "e", " ", "t", "o">>,
    <<"r", "e", "m", "e", "m", "b", "e", "r">>,
    <<"r", "e", "m", "i", "n", "d", " ", "m", "e">>,
    <<"d", "o", "n", "'", "t", " ", "f", "o", "r", "g", "e", "t">>,
    <<"i", "d", "e", "a">>,
    <<"w", "h", "a", "t", " ", "i", "f">>,
    <<"m", "a", "y", "b", "e", " ", "w", "e", " ", "c", "o", "u", "l", "d">>,
    <<" ", "x", " ">> }

InitType ==
  /\ memories = <<>>
  /\ typed = <<>>
  /\ now = 0
  /\ out = NoCall

\* one more phrase of the transcript arrives
Dictate ==
  /\ Len(typed) < MaxPhrases
  /\ \E p \in TypePhrases : typed' = Append(typed, p)
  /\ out' = NoCall
  /\ UNCHANGED <<memories, now>>

CallDetectMemoryType ==
  /\ out' = [op |-> "detectMemoryType", res |-> detectMemoryType(Text)]
  /\ UNCHANGED <<memories, typed, now>>

NextType == Dictate \/ CallDetectMemoryType

SpecType == InitType /\ [][NextType]_vars

\* the keyword rungs of the classification ladder, as the spec lists them
RungMeeting == {<<"m", "e", "e", "t", "i", "n", "g">>, <<"c", "a", "l", "l", " ", "w", "i", "t", "h">>, <<"d", "i", "s", "c", "u", "s", "s", "e", "d", " ", "w", "i", "t", "h">>}

RungCall == {<<"c", "a", "l", "l">>, <<"p", "h", "o", "n", "e">>, <<"s", "p", "o", "k", "e", " ", "t", "o">>}

RungReminder == {<<"r", "e", "m", "e", "m", "b", "e", "r">>, <<"r", "e", "m", "i", "n", "d", " ", "m", "e">>, <<"d", "o", "n", "'", "t", " ", "f", "o", "r", "g", "e", "t">>}

RungIdea == {<<"i", "d", "e", "a">>, <<"w", "h", "a", "t", " ", "i", "f">>, <<"m", "a", "y", "b", "e", " ", "w", "e", " ", "c", "o", "u", "l", "d">>}

Mentions(words) == HasAny(toLowerCase(Text), words)

\* C3 as stated: a text with "call with" and without "meeting" is a call; a text
\* with "meeting" is a meeting.
C3_CallWithIsCall ==
  out.op = "detectMemoryType" =>
    /\ (Mentions({<<"c", "a", "l", "l", " ", "w", "i", "t", "h">>}) /\ ~Mentions({<<"m", "e", "e", "t", "i", "n", "g">>}) => out.res = "call")
    /\ (Mentions({<<"m", "e", "e", "t", "i", "n", "g">>}) => out.res = "meeting")

\* C3 amended: a text with "call with" is a meeting, as "call with" is a keyword
\* of the first rung; a text with "meeting" is a meeting; a text with "call" and
\* no keyword of the meeting rung is a call.
C3_CallWithIsMeeting ==
  out.op = "detectMemoryType" =>
    /\ (Mentions({<<"c", "a", "l", "l", " ", "w", "i", "t", "h">>}) => out.res = "meeting")
    /\ (Mentions({<<"m", "e", "e", "t", "i", "n", "g">>}) => out.res = "meeting")
    /\ (Mentions({<<"c", "a", "l", "l">>}) /\ ~Mentions(RungMeeting) => out.res = "call")

\* C3 witness: a text with "call with" and without "meeting" has been classified.
C3_Witness ==
  /\ out.op = "detectMemoryType"
  /\ Mentions({<<"c", "a", "l", "l", " ", "w", "i", "t", "h">>})
  /\ ~Mentions({<<"m", "e", "e", "t", "i", "n", "g">>})
  /\ out.res = "meeting"

\* C4: the type is that of the earliest rung of the ladder meeting, call,
\* reminder, idea with a keyword in the text, and note when no rung has one.
C4_FirstRungWins ==
  out.op = "detectMemoryType" =>
    /\ (Mentions(RungMeeting) => out.res = "meeting")
    /\ (~Mentions(RungMeeting) /\ Mentions(RungCall) => out.res = "call")
    /\ (~Mentions(RungMeeting \cup RungCall) /\ Mentions(RungReminder) => out.res = "reminder")
    /\ (~Mentions(RungMeeting \cup RungCall \cup RungReminder) /\ Mentions(RungIdea)
          => out.res = "idea")
    /\ (~Mentions(RungMeeting \cup RungCall \cup RungReminder \cup RungIdea)
          => out.res = "note")

\* C4 witness: a text with keywords of the reminder and the idea rung, and of no
\* earlier rung, has been classified as a reminder.
C4_Witness ==
  /\ out.op = "detectMemoryType"
  /\ ~Mentions(RungMeeting \cup RungCall)
  /\ Mentions(RungReminder)
  /\ Mentions(RungIdea)
  /\ out.res = "reminder"

(***************************************************************************)
(* structureTranscript                                                     *)
(***************************************************************************)

\* the elements of a finite set of integers in ascending order
Ascending(S) ==
  [k \in 1..Cardinality(S) |-> CHOOSE x \in S : Cardinality({y \in S : y < x}) = k - 1]

IsSentenceEnd(c) == c \in {".", "!", "?"}

\* s.split(/[.!?]+/): the pieces between the maximal runs of separators, an
\* empty piece before a leading and after a trailing run included
splitSentences(s) ==
  LET n == Len(s)
      starts == {i \in 1..n : ~IsSentenceEnd(s[i]) /\ (i = 1 \/ IsSentenceEnd(s[i - 1]))}
      EndOf(i) == Min({j \in i..n : j = n \/ IsSentenceEnd(s[j + 1])})
      order == Ascending(starts)
      middle == [k \in 1..Len(order) |-> SubSeq(s, order[k], EndOf(order[k]))]
  IN  IF n = 0 THEN << <<>> >>
      ELSE (IF IsSentenceEnd(s[1]) THEN << <<>> >> ELSE <<>>)
           \o middle
           \o (IF IsSentenceEnd(s[n]) THEN << <<>> >> ELSE <<>>)

RECURSIVE join(_, _)
join(parts, sep) ==
  IF parts = <<>> THEN <<>>
  ELSE IF Len(parts) = 1 THEN parts[1]
       ELSE parts[1] \o sep \o join(Tail(parts), sep)

MinSentence == 5

SummarySentences == 2

SummaryMax == 200

\* the record keeps the fields of StructuredMemory that depend on the type
\* ladder and on the summary rule; title, attendees, keyPoints, actionItems and
\* tags are computed from the transcript by functions of their own
structureTranscript(transcript) ==
  LET Qualifies(x) == Len(trim(x)) > MinSentence
      sentences == SelectSeq(splitSentences(transcript), Qualifies)
      summary == trim(join(slice(sentences, 0, SummarySentences), <<".", " ">>))
  IN  [type |-> detectMemoryType(transcript),
       summary |-> IF Len(summary) > SummaryMax
                   THEN substring(summary, 0, SummaryMax) \o <<".", ".", ".">>
                   ELSE summary,
       rawTranscript |-> transcript]

(***************************************************************************)
(* structureTranscript over dictated transcripts                           *)
(***************************************************************************)

LongLen == 99

LongWord == [i \in 1..LongLen |-> "a"]

TranscriptPhrases ==
  { LongWord, <<".">>, <<" ">>, <<"?", "!">>, <<"W", "e", " ", "c", "a", "l", "l">> }

InitTranscript ==
  /\ memories = <<>>
  /\ typed = <<>>
  /\ now = 0
  /\ out = NoCall

\* speech recognition delivers one more piece of the transcript
Recognize ==
  /\ Len(typed) < MaxPieces
  /\ \E p \in TranscriptPhrases : typed' = Append(typed, p)
  /\ out' = NoCall
  /\ UNCHANGED <<memories, now>>

CallStructureTranscript ==
  /\ out' = [op |-> "structureTranscript", res |-> structureTranscript(Text)]
  /\ UNCHANGED <<memories, typed, now>>

NextTranscript == Recognize \/ CallStructureTranscript

SpecTranscript == InitTranscript /\ [][NextTranscript]_vars

\* C6: the summary of a structured transcript is at most 200 characters long,
\* the ellipsis of a truncated summary included.
C6_SummaryAtMost200 ==
  out.op = "structureTranscript" => Len(out.res.summary) <= SummaryMax

(***************************************************************************)
(* memory-features.ts: parseMemoryContent                                  *)
(***************************************************************************)

\* the length of the longest run of characters of the class `in` that starts at i
RunLength(s, i, in) ==
  LET stops == {j \in i..(Len(s) + 1) : j = Len(s) + 1 \/ s[j] \notin in}
  IN  Min(stops) - i

LetterChars == UpperChars \cup LowerChars

TagChars == LetterChars \cup DigitChars \cup {"_", "-"}

CharAt(s, i) == IF i >= 1 /\ i <= Len(s) THEN s[i] ELSE ""

\* /@([A-Z][a-zA-Z]+\s?[A-Z]?[a-zA-Z]*)/ matched at position i: position after
\* the match, or 0.  Every part after [a-zA-Z]+ may match nothing, so the greedy
\* choices are never undone.
ContactEndAt(s, i) ==
  IF ~(CharAt(s, i) = "@" /\ IsUpper(CharAt(s, i + 1)) /\ IsLetter(CharAt(s, i + 2)))
  THEN 0
  ELSE LET a == i + 2 + RunLength(s, i + 2, LetterChars)
           b == IF IsSpace(CharAt(s, a)) THEN a + 1 ELSE a
           c == IF IsUpper(CharAt(s, b)) THEN b + 1 ELSE b
       IN  c + RunLength(s, c, LetterChars)

\* /#([a-zA-Z0-9_-]+)/ matched at position i
TagEndAt(s, i) ==
  IF CharAt(s, i) = "#" /\ CharAt(s, i + 1) \in TagChars
  THEN i + 1 + RunLength(s, i + 1, TagChars)
  ELSE 0

ContactMatches(s) == ScanAll([i \in 1..Len(s) |-> ContactEndAt(s, i)])

TagMatches(s) == ScanAll([i \in 1..Len(s) |-> TagEndAt(s, i)])

\* end: match.index + match[0].length, with the offsets of JavaScript
MentionEnd_groupLength(index, wholeLength, groupLength) == index + groupLength

MentionEnd(index, wholeLength, groupLength) == index + wholeLength

\* the value kept for a tag with the conversion to lower case left out
TagValue_asWritten(raw) == raw

TagValue(raw) == toLowerCase(raw)

parseMemoryContent(content) ==
  LET cm == ContactMatches(content)
      tm == TagMatches(content)
      lm == WikiMatches(content)
      Group(m, open, close) == SubSeq(content, m.start + open, m.end - 1 - close)
      Mention(type, value, m, open, close) ==
        [type |-> type, value |-> value, start |-> m.start - 1,
         end |-> MentionEnd(m.start - 1, m.end - m.start, m.end - m.start - open - close)]
      contactValues == [k \in 1..Len(cm) |-> trim(Group(cm[k], 1, 0))]
      tagValues == [k \in 1..Len(tm) |-> TagValue(Group(tm[k], 1, 0))]
      linkValues == [k \in 1..Len(lm) |-> Group(lm[k], 2, 2)]
  IN  [mentions |->
         [k \in 1..Len(cm) |-> Mention("contact", contactValues[k], cm[k], 1, 0)]
         \o [k \in 1..Len(tm) |-> Mention("tag", tagValues[k], tm[k], 1, 0)]
         \o [k \in 1..Len(lm) |-> Mention("link", linkValues[k], lm[k], 2, 2)],
       tags |-> Dedupe(tagValues),
       contacts |-> Dedupe(contactValues),
       links |-> Dedupe(linkValues)]

(***************************************************************************)
(* parseMemoryContent over typed note texts                                *)
(***************************************************************************)

MaxTyped == 4

NoteKeys == {<<"@">>, <<"#">>, <<"[", "[">>, <<"]", "]">>, <<"A">>, <<"a">>, <<" ">>}

InitParse ==
  /\ memories = <<>>
  /\ typed = <<>>
  /\ now = 0
  /\ out = NoCall

\* the user types one more piece of the note
TypeNote ==
  /\ Len(typed) < MaxTyped
  /\ \E p \in NoteKeys : typed' = Append(typed, p)
  /\ out' = NoCall
  /\ UNCHANGED <<memories, now>>

CallParseMemoryContent ==
  /\ out' = [op |-> "parseMemoryContent", res |-> parseMemoryContent(Text)]
  /\ UNCHANGED <<memories, typed, now>>

NextParse == TypeNote \/ CallParseMemoryContent

SpecParse == InitParse /\ [][NextParse]_vars

\* tok is a token of the kind `type` as the note convention writes it, and v
\* the value read from it
IsTokenOf(type, tok, v) ==
  CASE type = "contact" ->
         /\ Len(tok) >= 3
         /\ tok[1] = "@"
         /\ IsUpper(tok[2])
         /\ IsLetter(tok[3])
         /\ \A i \in 2..Len(tok) : IsLetter(tok[i]) \/ IsSpace(tok[i])
         /\ Cardinality({i \in 2..Len(tok) : IsSpace(tok[i])}) <= 1
         /\ trim(Tail(tok)) = v
    [] type = "tag" ->
         /\ Len(tok) >= 2
         /\ tok[1] = "#"
         /\ \A i \in 2..Len(tok) : tok[i] \in TagChars
         /\ toLowerCase(Tail(tok)) = v
    [] type = "link" ->
         /\ v # <<>>
         /\ "]" \notin Range(v)
         /\ tok = <<"[", "[">> \o v \o <<"]", "]">>
    [] OTHER -> FALSE

\* C9: every mention of parseMemoryContent(t) has start < end, lies inside t, and
\* t.slice(start, end) is the matched token with its delimiter.
C9_MentionOffsetsCutTheToken ==
  out.op = "parseMemoryContent" =>
    \A k \in 1..Len(out.res.mentions) :
      LET m == out.res.mentions[k]
      IN  /\ 0 <= m.start
          /\ m.start < m.end
          /\ m.end <= Len(Text)
          /\ IsTokenOf(m.type, SubSeq(Text, m.start + 1, m.end), m.value)

\* C9 witness: a contact, a tag or a link that does not start the text has been
\* reported, the contact with the blank its match ends on.
C9_Witness ==
  /\ out.op = "parseMemoryContent"
  /\ \E k \in 1..Len(out.res.mentions) :
       LET m == out.res.mentions[k]
       IN  m.type = "contact" /\ m.end - m.start > Len(m.value) + 1

\* C10: the tags of parseMemoryContent(t) hold no duplicate, each is a non-empty
\* string of lowercase letters, digits, - and _, and tokens that differ in letter
\* case only give one entry.
C10_TagsLowercaseNoDuplicates ==
  out.op = "parseMemoryContent" =>
    LET tags == out.res.tags
    IN  /\ \A j, k \in 1..Len(tags) : tags[j] = tags[k] => j = k
        /\ \A k \in 1..Len(tags) :
             /\ tags[k] # <<>>
             /\ \A i \in 1..Len(tags[k]) :
                  tags[k][i] \in LowerChars \cup DigitChars \cup {"_", "-"}
        /\ \A i \in 1..Len(Text) :
             TagEndAt(Text, i) # 0 =>
               Cardinality({k \in 1..Len(tags) :
                  tags[k] = toLowerCase(SubSeq(Text, i + 1, TagEndAt(Text, i) - 1))}) = 1

\* C10 witness: the tokens #A and #a of one text have given the single tag a.
C10_Witness ==
  /\ out.op = "parseMemoryContent"
  /\ includes(Text, <<"#", "A">>)
  /\ includes(Text, <<"#", "a">>)
  /\ out.res.tags = << <<"a">> >>

(***************************************************************************)
(* summary-generator: generateWeeklySummary                                *)
(***************************************************************************)

WeekMs == 7 * 24 * 60 * 60 * 1000

DayMs == 24 * 60 * 60 * 1000

\* the run of whitespace that starts at i
SpaceRun(s, i) == RunLength(s, i, SpaceChars)

NoMatch == [end |-> 0, from |-> 0, to |-> 0]

\* the keyword alternative (?:company|from|at|with) at position i: its length, 0 if none
CompanyKeywordAt(s, i) ==
  IF OccursAt(s, <<"c", "o", "m", "p", "a", "n", "y">>, i) THEN 7
  ELSE IF OccursAt(s, <<"f", "r", "o", "m">>, i) THEN 4
  ELSE IF OccursAt(s, <<"a", "t">>, i) THEN 2
  ELSE IF OccursAt(s, <<"w", "i", "t", "h">>, i) THEN 4
  ELSE 0

\* /(?:company|from|at|with)\s+([A-Z][a-zA-Z]+(?:\s+[A-Z]?[a-z]+)?)/ at position
\* i: the match ends where group 1 (from..to) ends.  The optional part is taken
\* when a blank run, an optional capital and a run of small letters follow.
CompanyAfterKeywordAt(s, i) ==
  LET k == CompanyKeywordAt(s, i)
      g == i + k + SpaceRun(s, i + k)
      a == g + 1 + RunLength(s, g + 1, LetterChars)
      b == a + SpaceRun(s, a)
      c == IF IsUpper(CharAt(s, b)) THEN b + 1 ELSE b
      d == c + RunLength(s, c, LowerChars)
  IN  IF k = 0 \/ g = i + k \/ ~IsUpper(CharAt(s, g)) \/ ~IsLetter(CharAt(s, g + 1))
      THEN NoMatch
      ELSE IF b > a /\ d > c THEN [end |-> d, from |-> g, to |-> d - 1]
           ELSE [end |-> a, from |-> g, to |-> a - 1]

CompanySuffixes ==
  <<<<"i", "n", "c">>, <<"l", "l", "c">>, <<"l", "t", "d">>, <<"c", "o", "r", "p">>, <<"p", "t", "y">>, <<"g", "m", "b", "h">>>>

\* the alternative (?:Inc|LLC|Ltd|Corp|Pty|GmbH), letter case ignored, at
\* position i: its length, 0 if none
CompanySuffixAt(s, i) ==
  LET hits == {k \in 1..Len(CompanySuffixes) : OccursAt(toLowerCase(s), CompanySuffixes[k], i)}
  IN  IF hits = {} THEN 0 ELSE Len(CompanySuffixes[Min(hits)])

\* /([A-Z][a-zA-Z]+(?:\s+[A-Z]?[a-z]+)?)\s+(?:Inc|LLC|Ltd|Corp|Pty|GmbH)/i at
\* position i.  With the i flag every class is "a letter"; a blank must follow
\* each word, so a word is always a whole run of letters, and the two-word
\* reading is tried before the one-word reading.
CompanyBeforeSuffixAt(s, i) ==
  LET a == i + RunLength(s, i, LetterChars)
      b == a + SpaceRun(s, a)
      c == b + RunLength(s, b, LetterChars)
      d == c + SpaceRun(s, c)
  IN  IF a < i + 2 \/ b = a THEN NoMatch
      ELSE IF c > b /\ d > c /\ CompanySuffixAt(s, d) # 0
           THEN [end |-> d + CompanySuffixAt(s, d), from |-> i, to |-> c - 1]
           ELSE IF CompanySuffixAt(s, b) # 0
                THEN [end |-> b + CompanySuffixAt(s, b), from |-> i, to |-> a - 1]
                ELSE NoMatch

CompanyStoplist ==
  {<<"T", "h", "e">>, <<"T", "h", "i", "s">>, <<"T", "h", "a", "t">>, <<"M", "e", "e", "t", "i", "n", "g">>, <<"C", "a", "l", "l">>}

MinCompany == 2

\* the companies one pattern finds in a note, in the order of the exec loop
CompaniesBy(s, matchAt) ==
  LET ms == ScanAll([i \in 1..Len(s) |-> matchAt[i].end])
      names == [k \in 1..Len(ms) |->
                  trim(SubSeq(s, matchAt[ms[k].start].from, matchAt[ms[k].start].to))]
      Counted(c) == Len(c) > MinCompany /\ c \notin CompanyStoplist
  IN  SelectSeq(names, Counted)

CompaniesOf(s) ==
  CompaniesBy(s, [i \in 1..Len(s) |-> CompanyAfterKeywordAt(s, i)])
  \o CompaniesBy(s, [i \in 1..Len(s) |-> CompanyBeforeSuffixAt(s, i)])

\* memory.content.match(/@(...)/g) with the @ removed: all mentions, repeated
\* ones included, a blank the match ends on kept
ContactNamesOf(s) ==
  LET ms == ContactMatches(s)
  IN  [k \in 1..Len(ms) |-> SubSeq(s, ms[k].start + 1, ms[k].end - 1)]

\* memory.content.match(/#(...)/g) with the # removed, in lower case
TagNamesOf(s) ==
  LET ms == TagMatches(s)
  IN  [k \in 1..Len(ms) |-> toLowerCase(SubSeq(s, ms[k].start + 1, ms[k].end - 1))]

IsLineChar(c) == c # "" /\ c # "\n"

\* /[-*]\s*\[\s*\]\s*(.+)/ at position i: group 1 (from..to) is the rest of a
\* line; the blank run before it gives back blanks until one character that is
\* no line break is left for it
CheckboxAt(s, i) ==
  LET a == i + 1 + SpaceRun(s, i + 1)
      b == a + 1 + SpaceRun(s, a + 1)
      w == SpaceRun(s, b + 1)
      begins == {g \in (b + 1)..(b + 1 + w) : IsLineChar(CharAt(s, g))}
  IN  IF CharAt(s, i) \notin {"-", "*"} \/ CharAt(s, a) # "[" \/ CharAt(s, b) # "]"
         \/ begins = {}
      THEN NoMatch
      ELSE LET g == Max(begins)
               e == g + RunLength(s, g, {c \in Range(s) : c # "\n"})
           IN  [end |-> e, from |-> g, to |-> e - 1]

\* the text of each checkbox match with the checkbox prefix and the blanks
\* around the rest removed
CheckboxTextsOf(s) ==
  LET at == [i \in 1..Len(s) |-> CheckboxAt(s, i)]
      ms == ScanAll([i \in 1..Len(s) |-> at[i].end])
      After(m) ==
        LET a == m.start + 1 + SpaceRun(s, m.start + 1)
            b == a + 1 + SpaceRun(s, a + 1)
        IN  b + 1 + SpaceRun(s, b + 1)
  IN  [k \in 1..Len(ms) |->
         trim(IF After(ms[k]) >= ms[k].end THEN <<>>
              ELSE SubSeq(s, After(ms[k]), ms[k].end - 1))]

\* content.split('\n')[0]
FirstLine(s) == SubSeq(s, 1, RunLength(s, 1, {c \in Range(s) : c # "\n"}))

\* content.split(/\s+/).length
WordCount(s) ==
  Cardinality({i \in 1..Len(s) : IsSpace(s[i]) /\ (i = 1 \/ ~IsSpace(s[i - 1]))}) + 1

SummaryLine == 100

\* the status of a deal note: three tests in a row, each overwriting the last
DealStatus(lower) ==
  LET won == HasAny(lower, {<<"w", "o", "n">>, <<"s", "i", "g", "n", "e", "d">>, <<"c", "l", "o", "s", "e", "d">>})
      lost == HasAny(lower, {<<"l", "o", "s", "t">>, <<"d", "e", "c", "l", "i", "n", "e", "d">>})
      submitted == HasAny(lower, {<<"s", "u", "b", "m", "i", "t", "t", "e", "d">>})
  IN  IF submitted THEN "Submitted"
      ELSE IF lost THEN "Lost"
      ELSE IF won THEN "Won"
      ELSE "In Progress"

EmptyAcc ==
  [totalWords |-> 0, contactCounts |-> <<>>, tagCounts |-> <<>>, companyCounts |-> <<>>,
   actionItems |-> <<>>, meetings |-> <<>>, deals |-> <<>>]

\* the meeting a note is taken for: its name, its mentions, its first line
MeetingOf(memory, contactNames) ==
  LET Unmarked(c) == c \notin {"#", "*", "@"}
  IN  [date |-> memory.name,
       contacts |-> contactNames,
       summary |-> substring(trim(SelectSeq(FirstLine(memory.content), Unmarked)),
                             0, SummaryLine)]

\* the pending items of a note, each with the name of the note
ActionItemsOf(actions, name) ==
  [k \in 1..Len(actions) |-> [text |-> actions[k], memory |-> name]]

\* the deals after a deal note: one more, for the first company known so far,
\* when a company is known
WithDeal(deals, companies, lower, content) ==
  IF Len(companies) > 0
  THEN Append(deals, [company |-> companies[1].name,
                      status |-> DealStatus(lower),
                      notes |-> substring(FirstLine(content), 0, SummaryLine)])
  ELSE deals

\* the body of the loop, given the note in lower case, its mentions and the
\* company counts with the note's companies counted
Accumulated(acc, memory, lower, contactNames, companyCounts) ==
  [totalWords |-> acc.totalWords + WordCount(memory.content),
   contactCounts |-> IncrementAll(acc.contactCounts, contactNames, 1),
   tagCounts |-> IncrementAll(acc.tagCounts, TagNamesOf(memory.content), 1),
   companyCounts |-> companyCounts,
   actionItems |-> acc.actionItems
                   \o ActionItemsOf(CheckboxTextsOf(memory.content), memory.name),
   meetings |-> IF HasAny(lower, {<<"m", "e", "e", "t", "i", "n", "g">>, <<"c", "a", "l", "l", " ", "w", "i", "t", "h">>})
                THEN Append(acc.meetings, MeetingOf(memory, contactNames))
                ELSE acc.meetings,
   deals |-> IF HasAny(lower, {<<"d", "e", "a", "l">>, <<"c", "o", "n", "t", "r", "a", "c", "t">>, <<"p", "r", "o", "p", "o", "s", "a", "l">>, <<"t", "e", "n", "d", "e", "r">>})
             THEN WithDeal(acc.deals, ObjectEntries(companyCounts), lower, memory.content)
             ELSE acc.deals]

\* one pass of the loop over weekMemories
AccumulateNote(acc, memory) ==
  Accumulated(acc, memory, toLowerCase(memory.content), ContactNamesOf(memory.content),
              IncrementAll(acc.companyCounts, CompaniesOf(memory.content), 1))

RECURSIVE AccumulateFrom(_, _, _)
AccumulateFrom(mems, m, acc) ==
  IF m > Len(mems) THEN acc
  ELSE AccumulateFrom(mems, m + 1, AccumulateNote(acc, mems[m]))

\* the notes of the last week: new Date(m.lastModified) >= weekAgo
WeekMemories(mems, clock) ==
  LET weekAgo == clock - WeekMs
      Recent(m) == m.lastModified >= weekAgo
  IN  SelectSeq(mems, Recent)

\* the count maps after the loop over the week's notes
SummaryCounts(mems, clock) == AccumulateFrom(WeekMemories(mems, clock), 1, EmptyAcc)

TopContactsCap == 5

TopTagsCap == 10

TopCompaniesCap == 5

PendingCap == 10

KeyTopicsCap == 5

\* the first n entries of a count map by count
TopOf(counts, n) == slice(SortByCountDesc(ObjectEntries(counts)), 0, n)

\* topTags.slice(0, 5).map(t => t.name)
KeyTopicsOf(topTags) ==
  [k \in 1..Min({KeyTopicsCap, Len(topTags)}) |-> topTags[k].name]

\* the value returned, given the week's notes and what the loop has gathered;
\* period.start and period.end are the UTC days of weekAgo and now
Summarized(weekMemories, acc, clock) ==
  [period |-> [start |-> (clock - WeekMs) \div DayMs, end |-> clock \div DayMs],
   totalMemories |-> Len(weekMemories),
   totalWords |-> acc.totalWords,
   topContacts |-> TopOf(acc.contactCounts, TopContactsCap),
   topTags |-> TopOf(acc.tagCounts, TopTagsCap),
   topCompanies |-> TopOf(acc.companyCounts, TopCompaniesCap),
   actionItems |-> [total |-> Len(acc.actionItems), completed |-> 0,
                    pending |-> slice(acc.actionItems, 0, PendingCap)],
   keyTopics |-> KeyTopicsOf(TopOf(acc.tagCounts, TopTagsCap)),
   meetings |-> acc.meetings,
   deals |-> acc.deals,
   generated |-> clock]

generateWeeklySummary(mems, clock) ==
  Summarized(WeekMemories(mems, clock), SummaryCounts(mems, clock), clock)

(***************************************************************************)
(* The summary page: dated notes and the weekly summary over them          *)
(***************************************************************************)

MaxDated == 2

DayDigits == <<"1", "2", "3", "4", "5", "6", "7", "8", "9">>

\* daily notes are named after their day
DayName(k) == <<"d", DayDigits[k]>>

SummaryBodies ==
  { <<"#", "c", "o", "n", "s", "t", "r", "u", "c", "t", "o", "r">>,
    <<"#", "a", " ", "#", "c", "o", "n", "s", "t", "r", "u", "c", "t", "o", "r", " ", "#", "b", " ", "#", "b">>,
    <<"M", "e", "e", "t", "i", "n", "g", " ", "@", "A", "l", " ", "@", "B", "o", ",", " ", "@", "C", "y", ",", " ", "@", "A", "l", " ", "#", "a", " ", "#", "b", " ", "#", "c", " ", "#", "d", " ", "#", "e", " ", "#", "f", " ", "a", "t", " ", "A", "c", "m", "e", ",", " ", "f", "r", "o", "m", " ", "B", "o", "l", "t", ",", " ", "w", "i", "t", "h", " ", "C", "o", "r", "d">>,
    <<"@", "D", "i", ",", " ", "@", "E", "d", ",", " ", "@", "F", "y", ",", " ", "#", "g", " ", "#", "h", " ", "#", "i", " ", "#", "j", " ", "#", "k", " ", "#", "7", " ", "#", "A", " ", "d", "e", "a", "l", " ", "w", "o", "n", " ", "f", "r", "o", "m", " ", "D", "y", "n", "a", ",", " ", "a", "t", " ", "E", "c", "h", "o", ",", " ", "w", "i", "t", "h", " ", "F", "i", "d", "o", ",", " ", "A", "c", "m", "e", " ", "I", "n", "c">>,
    <<"-", " ", "[", " ", "]", " ", "c", "a", "l", "l", " ", "@", "A", "l", "\n", "p", "r", "o", "p", "o", "s", "a", "l", " ", "s", "u", "b", "m", "i", "t", "t", "e", "d", " ", "#", "a">>,
    <<"c", "o", "n", "t", "r", "a", "c", "t", " ", "s", "i", "g", "n", "e", "d", ",", " ", "t", "h", "e", "n", " ", "l", "o", "s", "t", " ", "a", "t", " ", "A", "c", "m", "e">>,
    <<"n", "o", "t", "e", " ", "#", "b">> }

\* the clock of the page when the summary is made
Clock == 2 * WeekMs

\* when a note was last saved, by the clock of the store: just outside the
\* week, on its first instant, now, and a day ahead of the page's clock
Stamps == {Clock - WeekMs - 1, Clock - WeekMs, Clock, Clock + DayMs}

InitSummary ==
  /\ memories = <<>>
  /\ typed = <<>>
  /\ now = Clock
  /\ out = NoCall

SaveDaily ==
  /\ Len(memories) < MaxDated
  /\ \E content \in SummaryBodies, stamp \in Stamps :
       memories' = Append(memories,
                     [name |-> DayName(Len(memories) + 1),
                      path |-> PathOf(DayName(Len(memories) + 1)),
                      content |-> content, lastModified |-> stamp])
  /\ out' = NoCall
  /\ UNCHANGED <<typed, now>>

CallGenerateWeeklySummary ==
  /\ out' = [op |-> "generateWeeklySummary", res |-> generateWeeklySummary(memories, now)]
  /\ UNCHANGED <<memories, typed, now>>

NextSummary == SaveDaily \/ CallGenerateWeeklySummary

SpecSummary == InitSummary /\ [][NextSummary]_vars

\* the note's timestamp lies inside the window [now - 7 days, now]
InWindow(m) == m.lastModified >= now - WeekMs /\ m.lastModified <= now

\* C5: the summary aggregates a note, in totalMemories and in every count, if
\* and only if the note's timestamp lies inside the window that ends at now:
\* the summary of the collection is the summary of its notes inside the window,
\* and totalMemories is their number.
C5_AggregatesExactlyTheWindow ==
  out.op = "generateWeeklySummary" =>
    /\ out.res.totalMemories = Len(SelectSeq(memories, InWindow))
    /\ out.res = generateWeeklySummary(SelectSeq(memories, InWindow), now)

\* a >= b between counts: false when one of them is no number
AtLeast(a, b) == a # NotANumber /\ b # NotANumber /\ a >= b

NonIncreasing(top) == \A k \in 1..(Len(top) - 1) : AtLeast(top[k].count, top[k + 1].count)

\* top holds min(cap, number of entities) different entries of the count map,
\* and no entity left out has a higher count than one that is listed
HoldsTheHighest(top, counts, cap) ==
  /\ Len(top) = Min({cap, Len(counts)})
  /\ \A k \in 1..Len(top) : top[k] \in Range(counts)
  /\ \A j, k \in 1..Len(top) : j # k => top[j].name # top[k].name
  /\ \A e \in Range(counts) :
       (\A k \in 1..Len(top) : top[k].name # e.name) =>
         \A k \in 1..Len(top) : AtLeast(top[k].count, e.count)

TopListOk(top, counts, cap) ==
  /\ Len(top) <= cap
  /\ NonIncreasing(top)
  /\ HoldsTheHighest(top, counts, cap)

\* C7: topContacts, topTags and topCompanies are each in non-increasing order
\* of count, hold at most 5, 10 and 5 entries, and hold the entries with the
\* highest counts among all the entities counted over the week's notes.
C7_TopListsSortedCappedHighest ==
  out.op = "generateWeeklySummary" =>
    LET counted == SummaryCounts(memories, now)
    IN  /\ TopListOk(out.res.topContacts, counted.contactCounts, 5)
        /\ TopListOk(out.res.topTags, counted.tagCounts, 10)
        /\ TopListOk(out.res.topCompanies, counted.companyCounts, 5)

(***************************************************************************)
(* memory-features.ts: extractActionItems                                  *)
(***************************************************************************)

\* dueDate of an item that has none
Undefined == <<"undefined">>

\* `.`: every character but a line break
LineChars(s) == {c \in Range(s) : c # "\n"}

\* (?:\s*$|[,;.]) and (?:\s*$|[,;]) at position p: the position after it, 0 if
\* it does not match; \s*$ is tried first
TerminatorEnd(s, p, marks) ==
  IF p + SpaceRun(s, p) = Len(s) + 1 THEN Len(s) + 1
  ELSE IF CharAt(s, p) \in marks THEN p + 1
  ELSE 0

\* (.+?) started at x, followed by the terminator: the lengths it can stop at
LazyStops(s, x, marks) ==
  {k \in 1..RunLength(s, x, LineChars(s)) : TerminatorEnd(s, x + k, marks) # 0}

\* by\s+(.+?)(?:...) at position p, letter case ignored: the places where the
\* phrase can start.  \s+ takes the whole blank run, and gives blanks back
\* when nothing can follow it
ByStarts(s, p, marks) ==
  IF ~OccursAt(toLowerCase(s), <<"b", "y">>, p) THEN {}
  ELSE {y \in (p + 3)..(p + 2 + SpaceRun(s, p + 2)) : LazyStops(s, y, marks) # {}}

ClauseOf(s, y, k, marks) ==
  [end |-> TerminatorEnd(s, y + k, marks), from |-> y, to |-> y + k - 1]

ClauseFrom(s, y, marks) == ClauseOf(s, y, Min(LazyStops(s, y, marks)), marks)

\* the match of by\s+(.+?)(?:...) at p: group 1 is from..to; end 0 for no match
ByClauseAt(s, p, marks) ==
  IF ByStarts(s, p, marks) = {} THEN NoMatch
  ELSE ClauseFrom(s, Max(ByStarts(s, p, marks)), marks)

DateMarks == {",", ";"}

FollowUpMarks == {",", ";", "."}

\* text.match(/by\s+(.+?)(?:\s*$|[,;])/i): where the first match starts, 0 for null
DateMatchIndex(text) ==
  LET starts == {p \in 1..Len(text) : ByClauseAt(text, p, DateMarks).end # 0}
  IN  IF starts = {} THEN 0 ELSE Min(starts)

\* text.replace(found, ''): the first occurrence of the string found removed
RemoveFirst(text, found) ==
  LET at == {p \in 1..Len(text) : OccursAt(text, found, p)}
  IN  IF at = {} \/ found = <<>> THEN text
      ELSE SubSeq(text, 1, Min(at) - 1) \o SubSeq(text, Min(at) + Len(found), Len(text))

\* the due-date step with the clause left in the text
DueDated_clauseKept(text, priority, p, m) ==
  IF p = 0 THEN [text |-> text, dueDate |-> Undefined, priority |-> priority]
  ELSE [text |-> text, dueDate |-> SubSeq(text, m.from, m.to), priority |-> priority]

\* the due-date step, given where dateMatch starts and the match there
DueDated(text, priority, p, m) ==
  IF p = 0 THEN [text |-> text, dueDate |-> Undefined, priority |-> priority]
  ELSE [text |-> trim(RemoveFirst(text, SubSeq(text, p, m.end - 1))),
        dueDate |-> SubSeq(text, m.from, m.to),
        priority |-> priority]

WithDueDate(text, priority) ==
  DueDated(text, priority, DateMatchIndex(text),
           IF DateMatchIndex(text) = 0 THEN NoMatch
           ELSE ByClauseAt(text, DateMatchIndex(text), DateMarks))

\* text.replace(pattern, '') for a global pattern: what is left of s when the
\* matches, found one after the other from the left, are cut out
CutOut(s, matches) ==
  LET Kept(i) == \A k \in 1..Len(matches) : i < matches[k].start \/ i >= matches[k].end
      idx == {i \in 1..Len(s) : Kept(i)}
      RECURSIVE Take(_)
      Take(i) == IF i > Len(s) THEN <<>>
                 ELSE (IF i \in idx THEN <<s[i]>> ELSE <<>>) \o Take(i + 1)
  IN  Take(1)

\* /word:?/gi at position i: the position after the match, 0 if none
WordColonEnd(s, word, i) ==
  IF ~OccursAt(toLowerCase(s), word, i) THEN 0
  ELSE IF CharAt(s, i + Len(word)) = ":" THEN i + Len(word) + 1
  ELSE i + Len(word)

\* s.replace(/mark/g, '').replace(/word:?/gi, '').trim()
StripMarkers(s, mark, word) ==
  LET once == CutOut(s, ScanAll([i \in 1..Len(s) |-> IF OccursAt(s, mark, i) THEN i + Len(mark) ELSE 0]))
  IN  trim(CutOut(once, ScanAll([i \in 1..Len(once) |-> WordColonEnd(once, word, i)])))

\* one checkbox item from group 1 of the checkbox match
CheckboxItem(group) ==
  LET text == trim(group)
  IN  IF includes(text, <<"!", "!", "!">>) \/ includes(toLowerCase(text), <<"u", "r", "g", "e", "n", "t">>)
      THEN WithDueDate(StripMarkers(text, <<"!", "!", "!">>, <<"u", "r", "g", "e", "n", "t">>), "high")
      ELSE IF includes(text, <<"!">>) \/ includes(toLowerCase(text), <<"i", "m", "p", "o", "r", "t", "a", "n", "t">>)
      THEN WithDueDate(StripMarkers(text, <<"!">>, <<"i", "m", "p", "o", "r", "t", "a", "n", "t">>), "medium")
      ELSE WithDueDate(text, "medium")

\* \[\s*\]\s*(.+) after the blanks that start at a: group 1 (from..to) is the
\* rest of a line; the blank run before it gives back blanks until one
\* character that is no line break is left for it
BoxAfter(s, a, b) ==
  LET begins == {g \in (b + 1)..(b + 1 + SpaceRun(s, b + 1)) : IsLineChar(CharAt(s, g))}
  IN  IF CharAt(s, a) # "[" \/ CharAt(s, b) # "]" \/ begins = {} THEN NoMatch
      ELSE [end |-> Max(begins) + RunLength(s, Max(begins), LineChars(s)),
            from |-> Max(begins),
            to |-> Max(begins) + RunLength(s, Max(begins), LineChars(s)) - 1]

BoxFrom(s, a) == BoxAfter(s, a, a + 1 + SpaceRun(s, a + 1))

\* checkboxRegex /[-*]?\s*\[\s*\]\s*(.+)/ at position i
OptionalCheckboxAt(s, i) ==
  IF CharAt(s, i) \in {"-", "*"}
  THEN BoxFrom(s, i + 1 + SpaceRun(s, i + 1))
  ELSE BoxFrom(s, i + SpaceRun(s, i))

\* the items of the checkbox loop, in the order of the exec loop
CheckboxItemsOf(s, at) ==
  LET ms == ScanAll([i \in 1..Len(s) |-> at[i].end])
  IN  [k \in 1..Len(ms) |-> CheckboxItem(SubSeq(s, at[ms[k].start].from, at[ms[k].start].to))]

\* follow[\s-]?up at position i, letter case ignored: the position after it, 0
\* if none
FollowUpHeadEnd(s, i) ==
  IF ~OccursAt(toLowerCase(s), <<"f", "o", "l", "l", "o", "w">>, i) THEN 0
  ELSE IF IsSpace(CharAt(s, i + 6)) \/ CharAt(s, i + 6) = "-"
       THEN (IF OccursAt(toLowerCase(s), <<"u", "p">>, i + 7) THEN i + 9 ELSE 0)
       ELSE (IF OccursAt(toLowerCase(s), <<"u", "p">>, i + 6) THEN i + 8 ELSE 0)

\* (?:\s+by\s+(.+?))? followed by the terminator, at position q: the by clause
\* there, end 0 if the optional part cannot be taken
ByGroupAt(s, q) ==
  IF SpaceRun(s, q) = 0 THEN NoMatch
  ELSE ByClauseAt(s, q + SpaceRun(s, q), FollowUpMarks)

\* the lengths at which the target (.+?) started at x can stop: where the by
\* clause or the terminator follows
TargetStops(s, x) ==
  {k \in 1..RunLength(s, x, LineChars(s)) :
     ByGroupAt(s, x + k).end # 0 \/ TerminatorEnd(s, x + k, FollowUpMarks) # 0}

\* where the target can start after the head that ends before h: behind the
\* blanks and, when it is there, behind with and its blanks; \s+ takes all the
\* blanks it can and (?:with\s+)? is taken when it can be, so the last start
\* from which the match can be completed is the one used
TargetStarts(s, h) ==
  LET p == h + SpaceRun(s, h)
      afterWith == IF OccursAt(toLowerCase(s), <<"w", "i", "t", "h">>, p)
                   THEN (p + 5)..(p + 4 + SpaceRun(s, p + 4)) ELSE {}
  IN  IF p = h THEN {}
      ELSE {x \in ((h + 1)..p) \cup afterWith : TargetStops(s, x) # {}}

NoFollowUp == [end |-> 0, from |-> 0, to |-> 0, due |-> NoMatch]

FollowUpOf(s, x, k) ==
  IF ByGroupAt(s, x + k).end # 0
  THEN [end |-> ByGroupAt(s, x + k).end, from |-> x, to |-> x + k - 1,
        due |-> ByGroupAt(s, x + k)]
  ELSE [end |-> TerminatorEnd(s, x + k, FollowUpMarks), from |-> x, to |-> x + k - 1,
        due |-> NoMatch]

FollowUpFrom(s, x) == FollowUpOf(s, x, Min(TargetStops(s, x)))

\* followUpRegex at position i: group 1 is from..to, group 2 is due.from..due.to
FollowUpAt(s, i) ==
  IF FollowUpHeadEnd(s, i) = 0 THEN NoFollowUp
  ELSE IF TargetStarts(s, FollowUpHeadEnd(s, i)) = {} THEN NoFollowUp
  ELSE FollowUpFrom(s, Max(TargetStarts(s, FollowUpHeadEnd(s, i))))

FollowUpItem(s, m) ==
  [text |-> <<"F", "o", "l", "l", "o", "w", " ", "u", "p", " ", "w", "i", "t", "h", " ">> \o trim(SubSeq(s, m.from, m.to)),
   dueDate |-> IF m.due.end = 0 THEN Undefined ELSE trim(SubSeq(s, m.due.from, m.due.to)),
   priority |-> "medium"]

FollowUpItemsOf(s, at) ==
  LET ms == ScanAll([i \in 1..Len(s) |-> at[i].end])
  IN  [k \in 1..Len(ms) |-> FollowUpItem(s, at[ms[k].start])]

\* the two loops in the other order
extractActionItems_followUpsFirst(content) ==
  FollowUpItemsOf(content, [i \in 1..Len(content) |-> FollowUpAt(content, i)])
  \o CheckboxItemsOf(content, [i \in 1..Len(content) |-> OptionalCheckboxAt(content, i)])

extractActionItems(content) ==
  CheckboxItemsOf(content, [i \in 1..Len(content) |-> OptionalCheckboxAt(content, i)])
  \o FollowUpItemsOf(content, [i \in 1..Len(content) |-> FollowUpAt(content, i)])

(***************************************************************************)
(* A note being typed, and its action items                                *)
(***************************************************************************)

MaxWords == 3

ActionWords ==
  { <<"-", " ", "[", " ", "]", " ", "C", "a", "l", "l">>,
    <<" ", "b", "y", " ", "F", "r", "i", "d", "a", "y">>,
    <<"!">>,
    <<"!", "!">>,
    <<"U", "r", "g", "e", "n", "t", "!">>,
    <<"\n">>,
    <<"f", "o", "l", "l", "o", "w", " ", "u", "p", " ", "w", "i", "t", "h", " ", "A", "l", ",", " ">> }

InitActions ==
  /\ memories = <<>>
  /\ typed = <<>>
  /\ now = 0
  /\ out = NoCall

TypeWords ==
  /\ Len(typed) < MaxWords
  /\ \E w \in ActionWords : typed' = Append(typed, w)
  /\ out' = NoCall
  /\ UNCHANGED <<memories, now>>

CallExtractActionItems ==
  /\ out' = [op |-> "extractActionItems", res |-> extractActionItems(Text)]
  /\ UNCHANGED <<memories, typed, now>>

NextActions == TypeWords \/ CallExtractActionItems

SpecActions == InitActions /\ [][NextActions]_vars

\* the note is one line that starts with the checkbox "- [ ] "
OneCheckboxLine ==
  /\ Len(Text) > 6
  /\ SubSeq(Text, 1, 6) = <<"-", " ", "[", " ", "]", " ">>
  /\ "\n" \notin Range(Text)

\* the text of that checkbox item as written
ItemText == trim(SubSeq(Text, 7, Len(Text)))

\* the places of t where "by" (in any letter case) and a blank stand
ByPlaces(t) ==
  {p \in 1..Len(t) : OccursAt(toLowerCase(t), <<"b", "y">>, p) /\ IsSpace(CharAt(t, p + 2))}

\* where the phrase of the first "by <phrase>" clause of t starts
PhraseStart(t) == Min(ByPlaces(t)) + 2 + SpaceRun(t, Min(ByPlaces(t)) + 2)

\* the clause is trailing: the phrase runs to the end of t, no "," or ";"
\* cuts it
TrailingBy(t) ==
  /\ ByPlaces(t) # {}
  /\ \A q \in (PhraseStart(t) + 1)..Len(t) : t[q] \notin {",", ";"}

\* what the due-date rule asks of the item made from the text t
DueDateRule(item, t) ==
  /\ TrailingBy(t) =>
       /\ item.dueDate = SubSeq(t, PhraseStart(t), Len(t))
       /\ item.text = trim(SubSeq(t, 1, Min(ByPlaces(t)) - 1))
  /\ ByPlaces(t) = {} =>
       /\ item.dueDate = Undefined
       /\ item.text = t

HasMarker(t) ==
  \/ includes(t, <<"!">>)
  \/ includes(toLowerCase(t), <<"u", "r", "g", "e", "n", "t">>)
  \/ includes(toLowerCase(t), <<"i", "m", "p", "o", "r", "t", "a", "n", "t">>)

HasHighMarker(t) == includes(t, <<"!", "!", "!">>) \/ includes(toLowerCase(t), <<"u", "r", "g", "e", "n", "t">>)

\* C12: a checkbox item whose text contains "!!!" or "urgent" (any letter
\* case) gets priority high and a text in which no "!!!" and no "urgent" is
\* left; every other checkbox item gets priority medium; no item gets low.
C12_HighPriorityMarkersStripped ==
  out.op = "extractActionItems" =>
    /\ \A k \in 1..Len(out.res) : out.res[k].priority \in {"high", "medium"}
    /\ OneCheckboxLine =>
         /\ Len(out.res) >= 1
         /\ HasHighMarker(ItemText) =>
              /\ out.res[1].priority = "high"
              /\ ~HasHighMarker(out.res[1].text)
         /\ ~HasHighMarker(ItemText) => out.res[1].priority = "medium"

\* the tags of a note as written: the tokens #tag of its text, in lower case
TagsWritten(m) == TagNamesOf(m.content)

\* every note lies in the window and holds one tag token, the same tag in
\* each of them
SameSingleTag ==
  /\ Len(memories) >= 1
  /\ \A i \in 1..Len(memories) :
       /\ InWindow(memories[i])
       /\ Len(TagsWritten(memories[i])) = 1
       /\ TagsWritten(memories[i]) = TagsWritten(memories[1])

\* C13: n notes of the window, each with the tag #t once and no other tag,
\* give totalMemories = n and topTags = [{name: t in lower case, count: n}].
C13_OneTagCountedPerNote ==
  (out.op = "generateWeeklySummary" /\ SameSingleTag) =>
    /\ out.res.totalMemories = Len(memories)
    /\ out.res.topTags = <<[name |-> TagsWritten(memories[1])[1], count |-> Len(memories)]>>

(***************************************************************************)
(* memory-features.ts: extractMentionContext                               *)
(***************************************************************************)

RECURSIVE OpenGroups(_, _, _)
\* the groups left open after the first n characters of a pattern; -1 once a
\* ")" has closed a group that was not open
OpenGroups(pattern, n, open) ==
  IF open < 0 \/ n > Len(pattern) THEN open
  ELSE OpenGroups(pattern, n + 1,
                  IF pattern[n] = "(" THEN open + 1
                  ELSE IF pattern[n] = ")" THEN open - 1
                  ELSE open)

\* new RegExp(pattern, 'gi') for a pattern of letters, blanks, "@", "." and
\* brackets: it is a SyntaxError unless every "(" is closed and every ")"
\* closes one
Compiles(pattern) == OpenGroups(pattern, 1, 0) = 0

\* a pattern of letters, blanks, "@" and "." matched at position i with the i
\* flag: "." is any character but a line break
PlainMatchAt(s, pattern, i) ==
  /\ i + Len(pattern) - 1 <= Len(s)
  /\ \A k \in 1..Len(pattern) :
       IF pattern[k] = "." THEN s[i + k - 1] # "\n"
       ELSE lowerChar(s[i + k - 1]) = lowerChar(pattern[k])

ContextChars == 50

\* the part of extractMentionContext after regex.exec: index is match.index,
\* -1 for null
MentionContextAt(content, mentionName, index, contextChars) ==
  LET start == Max({0, index - contextChars})
      end == Min({Len(content), index + Len(mentionName) + 1 + contextChars})
  IN  IF index < 0 THEN <<>>
      ELSE (IF start > 0 THEN <<".", ".", ".">> ELSE <<>>)
           \o substring(content, start, end)
           \o (IF end < Len(content) THEN <<".", ".", ".">> ELSE <<>>)

\* regex.exec(content) of a new global regex: match.index, -1 for null
FirstIndex(content, pattern) ==
  LET at == {i \in 1..Len(content) : PlainMatchAt(content, pattern, i)}
  IN  IF at = {} THEN 0 - 1 ELSE Min(at) - 1

\* extractMentionContext: raised is TRUE when the call throws
extractMentionContext(content, mentionName, contextChars) ==
  IF ~Compiles(<<"@">> \o mentionName) THEN [raised |-> TRUE, value |-> <<>>]
  ELSE [raised |-> FALSE,
        value |-> MentionContextAt(content, mentionName,
                                   FirstIndex(content, <<"@">> \o mentionName), contextChars)]

MaxContext == 3

PadLen == 51

\* a stretch of text longer than the context of a mention
Pad == [k \in 1..PadLen |-> "x"]

ContextWords == {<<"@", "A", "l">>, <<"@", "a", "b">>, <<" ">>, Pad}

\* the names a caller asks about: a name, one with a "." and one with a "("
MentionNames == {<<"A", "l">>, <<"A", ".">>, <<"A", "l", "(">>}

InitContext ==
  /\ memories = <<>>
  /\ typed = <<>>
  /\ now = 0
  /\ out = NoCall

TypeContext ==
  /\ Len(typed) < MaxContext
  /\ \E w \in ContextWords : typed' = Append(typed, w)
  /\ out' = NoCall
  /\ UNCHANGED <<memories, now>>

CallExtractMentionContext ==
  /\ \E name \in MentionNames :
       out' = [op |-> "extractMentionContext", arg |-> name,
               res |-> extractMentionContext(Text, name, ContextChars)]
  /\ UNCHANGED <<memories, typed, now>>

NextContext == TypeContext \/ CallExtractMentionContext

SpecContext == InitContext /\ [][NextContext]_vars

\* C14: an extraction function returns a value and never raises, for every
\* text and every name, a name with regular-expression metacharacters
\* included; a text without the pattern gives the empty result.
C14_ExtractionNeverRaises ==
  out.op = "extractMentionContext" =>
    /\ ~out.res.raised
    /\ ("@" \notin Range(Text) => out.res.value = <<>>)

(***************************************************************************)
(* memory-features.ts: renderMemoryWithMentions                            *)
(***************************************************************************)

RECURSIVE ReplaceCharIn(_, _, _, _, _)
\* the characters lo..hi of s with every c replaced by the text by
ReplaceCharIn(s, c, by, lo, hi) ==
  IF lo > hi THEN <<>>
  ELSE IF lo = hi THEN (IF s[lo] = c THEN by ELSE <<s[lo]>>)
  ELSE ReplaceCharIn(s, c, by, lo, (lo + hi) \div 2)
       \o ReplaceCharIn(s, c, by, (lo + hi) \div 2 + 1, hi)

\* s.replace(/c/g, by) for a single character c
ReplaceChar(s, c, by) == ReplaceCharIn(s, c, by, 1, Len(s))

\* the three replacements of the "Escape HTML" step, in their order
EscapeHtml(s) ==
  ReplaceChar(ReplaceChar(ReplaceChar(s, "&", <<"&", "a", "m", "p", ";">>), "<", <<"&", "l", "t", ";">>), ">", <<"&", "g", "t", ";">>)

RECURSIVE SubstituteFrom(_, _, _, _, _)
\* s.replace(regex, callback) for a global regex: the text between the matches
\* is kept, match k gives way to reps[k]
SubstituteFrom(s, matches, reps, k, pos) ==
  IF k > Len(matches) THEN SubSeq(s, pos, Len(s))
  ELSE SubSeq(s, pos, matches[k].start - 1) \o reps[k]
       \o SubstituteFrom(s, matches, reps, k + 1, matches[k].end)

FullName(c) == c.firstName \o <<" ">> \o c.lastName

\* what the callback of the contact pass returns for the captured name
ContactMarkup(name, contacts) ==
  LET found == {i \in 1..Len(contacts) : toLowerCase(FullName(contacts[i])) = toLowerCase(name)}
  IN  IF found # {}
      THEN <<"<", "a", " ", "h", "r", "e", "f", "=", "\"", "/", "c", "o", "n", "t", "a", "c", "t", "s", "?", "h", "i", "g", "h", "l", "i", "g", "h", "t", "=">> \o contacts[Min(found)].id
           \o <<"\"", " ", "c", "l", "a", "s", "s", "=", "\"", "t", "e", "x", "t", "-", "b", "l", "u", "e", "-", "4", "0", "0", " ", "h", "o", "v", "e", "r", ":", "t", "e", "x", "t", "-", "b", "l", "u", "e", "-", "3", "0", "0", " ", "b", "g", "-", "b", "l", "u", "e", "-", "9", "0", "0", "/", "3", "0", " ", "p", "x", "-", "1", " ", "r", "o", "u", "n", "d", "e", "d", "\"", ">", "@">>
           \o name \o <<"<", "/", "a", ">">>
      ELSE <<"<", "s", "p", "a", "n", " ", "c", "l", "a", "s", "s", "=", "\"", "t", "e", "x", "t", "-", "y", "e", "l", "l", "o", "w", "-", "4", "0", "0", " ", "b", "g", "-", "y", "e", "l", "l", "o", "w", "-", "9", "0", "0", "/", "3", "0", " ", "p", "x", "-", "1", " ", "r", "o", "u", "n", "d", "e", "d", "\"", ">", "@">> \o name \o <<"<", "/", "s", "p", "a", "n", ">">>

ContactsRendered(s, ms, contacts) ==
  SubstituteFrom(s, ms, [k \in 1..Len(ms) |-> ContactMarkup(SubSeq(s, ms[k].start + 1, ms[k].end - 1), contacts)], 1, 1)

\* what the callback of the tag pass returns
TagMarkup(tag) ==
  <<"<", "a", " ", "h", "r", "e", "f", "=", "\"", "/", "m", "e", "m", "o", "r", "i", "e", "s", "?", "t", "a", "g", "=">> \o tag
  \o <<"\"", " ", "c", "l", "a", "s", "s", "=", "\"", "t", "e", "x", "t", "-", "p", "u", "r", "p", "l", "e", "-", "4", "0", "0", " ", "h", "o", "v", "e", "r", ":", "t", "e", "x", "t", "-", "p", "u", "r", "p", "l", "e", "-", "3", "0", "0", " ", "b", "g", "-", "p", "u", "r", "p", "l", "e", "-", "9", "0", "0", "/", "3", "0", " ", "p", "x", "-", "1", " ", "r", "o", "u", "n", "d", "e", "d", "\"", ">", "#">>
  \o tag \o <<"<", "/", "a", ">">>

TagsRendered(s, ms) ==
  SubstituteFrom(s, ms, [k \in 1..Len(ms) |-> TagMarkup(SubSeq(s, ms[k].start + 1, ms[k].end - 1))], 1, 1)

\* the characters encodeURIComponent leaves as they are
Unreserved == LetterChars \cup DigitChars \cup {"-", "_", ".", "!", "~", "*", "'", "(", ")"}

\* the escape sequence of encodeURIComponent for the reserved characters the
\* note texts and the markup are written with
PercentCode(c) ==
  CASE c = " " -> <<"%", "2", "0">>
    [] c = "\"" -> <<"%", "2", "2">>
    [] c = "#" -> <<"%", "2", "3">>
    [] c = "%" -> <<"%", "2", "5">>
    [] c = "&" -> <<"%", "2", "6">>
    [] c = "," -> <<"%", "2", "C">>
    [] c = "/" -> <<"%", "2", "F">>
    [] c = ":" -> <<"%", "3", "A">>
    [] c = ";" -> <<"%", "3", "B">>
    [] c = "<" -> <<"%", "3", "C">>
    [] c = "=" -> <<"%", "3", "D">>
    [] c = ">" -> <<"%", "3", "E">>
    [] c = "?" -> <<"%", "3", "F">>
    [] c = "@" -> <<"%", "4", "0">>
    [] c = "[" -> <<"%", "5", "B">>
    [] c = "]" -> <<"%", "5", "D">>
    [] c = "\n" -> <<"%", "0", "A">>
    [] c = "\t" -> <<"%", "0", "9">>

RECURSIVE EncodedIn(_, _, _)
\* the characters lo..hi of s, encoded
EncodedIn(s, lo, hi) ==
  IF lo > hi THEN <<>>
  ELSE IF lo = hi THEN (IF s[lo] \in Unreserved THEN <<s[lo]>> ELSE PercentCode(s[lo]))
  ELSE EncodedIn(s, lo, (lo + hi) \div 2) \o EncodedIn(s, (lo + hi) \div 2 + 1, hi)

encodeURIComponent(s) == EncodedIn(s, 1, Len(s))

WikiHead == <<"<", "a", " ", "h", "r", "e", "f", "=", "\"", "/", "m", "e", "m", "o", "r", "i", "e", "s", "?", "p", "r", "o", "j", "e", "c", "t", "=">>

\* what the callback of the wiki-link pass returns
WikiMarkup(link) ==
  WikiHead \o encodeURIComponent(link)
  \o <<"\"", " ", "c", "l", "a", "s", "s", "=", "\"", "t", "e", "x", "t", "-", "g", "r", "e", "e", "n", "-", "4", "0", "0", " ", "h", "o", "v", "e", "r", ":", "t", "e", "x", "t", "-", "g", "r", "e", "e", "n", "-", "3", "0", "0", " ", "b", "g", "-", "g", "r", "e", "e", "n", "-", "9", "0", "0", "/", "3", "0", " ", "p", "x", "-", "1", " ", "r", "o", "u", "n", "d", "e", "d", "\"", ">", "[", "[">>
  \o link \o <<"]", "]", "<", "/", "a", ">">>

WikiLinksRendered(s, ms) ==
  SubstituteFrom(s, ms, [k \in 1..Len(ms) |-> WikiMarkup(SubSeq(s, ms[k].start + 2, ms[k].end - 3))], 1, 1)

\* the passes after the escape step, each over the output of the one before
ContactPass(s, contacts) == ContactsRendered(s, ContactMatches(s), contacts)

TagPass(s) == TagsRendered(s, TagMatches(s))

WikiPass(s) == WikiLinksRendered(s, WikiMatches(s))

renderMemoryWithMentions(content, contacts) ==
  ReplaceChar(WikiPass(TagPass(ContactPass(EscapeHtml(content), contacts))), "\n", <<"<", "b", "r", "/", ">">>)

(***************************************************************************)
(* renderMemoryWithMentions over typed note texts                          *)
(***************************************************************************)

MaxRendered == 4

RenderKeys == {<<"[", "[">>, <<"]", "]">>, <<"@", "A", "l">>, <<" ", "B", "o">>, <<"#", "a">>, <<"<", "\n">>}

\* the contact lists the page passes: none, or the contact Al Bo
ContactLists == {<<>>, <<[id |-> <<"c", "1">>, firstName |-> <<"A", "l">>, lastName |-> <<"B", "o">>]>>}

InitRender ==
  /\ memories = <<>>
  /\ typed = <<>>
  /\ now = 0
  /\ out = NoCall

TypeRender ==
  /\ Len(typed) < MaxRendered
  /\ \E p \in RenderKeys : typed' = Append(typed, p)
  /\ out' = NoCall
  /\ UNCHANGED <<memories, now>>

CallRenderMemoryWithMentions ==
  /\ \E contacts \in ContactLists :
       out' = [op |-> "renderMemoryWithMentions", arg |-> contacts,
               res |-> renderMemoryWithMentions(Text, contacts)]
  /\ UNCHANGED <<memories, typed, now>>

NextRender == TypeRender \/ CallRenderMemoryWithMentions

SpecRender == InitRender /\ [][NextRender]_vars

\* the number of places of s where pat begins
Occurrences(s, pat) == Cardinality({i \in 1..Len(s) : OccursAt(s, pat, i)})

\* the link element of a title as it stands in the escaped source
LinkElement(title) == ReplaceChar(WikiMarkup(title), "\n", <<"<", "b", "r", "/", ">">>)

\* the titles of the [[Title]] tokens of s
TitlesIn(s, ms) == {SubSeq(s, ms[k].start + 2, ms[k].end - 3) : k \in 1..Len(ms)}

\* C19: for every [[Title]] token of the source, the rendering holds one link
\* element carrying the escaped title as written, also when the title holds an
\* @Name or a #tag: there are as many link elements as tokens, and nothing an
\* earlier pass inserted is matched or wrapped by a later pass.
C19_LinkElementCarriesTitle ==
  out.op = "renderMemoryWithMentions" =>
    /\ \A title \in TitlesIn(EscapeHtml(Text), WikiMatches(EscapeHtml(Text))) :
         includes(out.res, LinkElement(title))
    /\ Occurrences(out.res, WikiHead) = Len(WikiMatches(EscapeHtml(Text)))

(***************************************************************************)
(* Repeated calls of the pure functions over stored notes                  *)
(***************************************************************************)

RECURSIVE LastIndexFrom(_, _, _, _)
\* targetRegex.lastIndex when the loop of findBacklinks ends
LastIndexFrom(targetTitle, mems, i, lastIndex) ==
  IF i > Len(mems) THEN lastIndex
  ELSE LastIndexFrom(targetTitle, mems, i + 1,
                     RegexTest(toLowerCase(TokenOf(targetTitle)), mems[i].content, lastIndex).lastIndex)

\* the regex kept from one call to the next
NewTargetRegex_keptPosition(left) == left

\* lastIndex of targetRegex when a call begins: the call builds the regex anew
\* (new RegExp), whatever position the regex of an earlier call was left at
NewTargetRegex(left) == 0

MaxCalls == 2

RepeatNames == {<<"A">>, <<"A", "B">>}

RepeatBodies ==
  { <<"[", "[", "A", "]", "]">>,
    <<"x", " ", "[", "[", "a", "]", "]", " ", "[", "[", "A", "B", "]", "]">>,
    <<"[", "[", "@", "A", "l", " ", "B", "o", "]", "]", " ", "#", "a", "\n", "<", "b", ">">>,
    <<"-", " ", "[", " ", "]", " ", "C", "a", "l", "l", " ", "@", "A", "l", " ", "b", "y", " ", "F", "r", "i", "d", "a", "y">>,
    <<"f", "o", "l", "l", "o", "w", " ", "u", "p", " ", "w", "i", "t", "h", " ", "A", "l", ",", " ", "[", "[", "A", "]">> }

InitRepeat ==
  /\ memories = <<>>
  /\ typed = <<>>
  /\ now = 0
  /\ out = NoCall

\* a note is stored, one per name
SaveNote ==
  /\ \E name \in RepeatNames \ UsedNames(memories), content \in RepeatBodies :
       memories' = Append(memories, [name |-> name, path |-> PathOf(name),
                                     content |-> content, lastModified |-> 0])
  /\ out' = NoCall
  /\ UNCHANGED <<typed, now>>

\* the position the regex of the last findBacklinks call was left at
LeftBy(o) == IF o.op = "none" THEN 0 ELSE o.left

CallsOf(o) == IF o.op = "none" THEN 0 ELSE o.nth

\* the record of a call: what it was given, what it returned, and the call
\* before it
Called(op, arg, res, left) ==
  [op |-> op, arg |-> arg, res |-> res, left |-> left, nth |-> CallsOf(out) + 1,
   prev |-> IF out.op = "none" THEN NoCall
            ELSE [op |-> out.op, arg |-> out.arg, res |-> out.res]]

RenderNote ==
  /\ CallsOf(out) < MaxCalls
  /\ \E i \in 1..Len(memories), contacts \in ContactLists :
       out' = Called("renderMemoryWithMentions", <<i, contacts>>,
                     renderMemoryWithMentions(memories[i].content, contacts), LeftBy(out))
  /\ UNCHANGED <<memories, typed, now>>

ParseNote ==
  /\ CallsOf(out) < MaxCalls
  /\ \E i \in 1..Len(memories) :
       out' = Called("parseMemoryContent", i, parseMemoryContent(memories[i].content), LeftBy(out))
  /\ UNCHANGED <<memories, typed, now>>

ActionItemsOfNote ==
  /\ CallsOf(out) < MaxCalls
  /\ \E i \in 1..Len(memories) :
       out' = Called("extractActionItems", i, extractActionItems(memories[i].content), LeftBy(out))
  /\ UNCHANGED <<memories, typed, now>>

ForwardLinksOfNote ==
  /\ CallsOf(out) < MaxCalls
  /\ \E i \in 1..Len(memories) :
       out' = Called("findForwardLinks", i, findForwardLinks(memories[i].content, memories), LeftBy(out))
  /\ UNCHANGED <<memories, typed, now>>

BacklinksOfTitle ==
  /\ CallsOf(out) < MaxCalls
  /\ \E targetTitle \in RepeatNames :
       out' = Called("findBacklinks", targetTitle,
                     BacklinksFrom(targetTitle, memories, 1, NewTargetRegex(LeftBy(out)), <<>>),
                     LastIndexFrom(targetTitle, memories, 1, NewTargetRegex(LeftBy(out))))
  /\ UNCHANGED <<memories, typed, now>>

NextRepeat ==
  \/ SaveNote
  \/ RenderNote
  \/ ParseNote
  \/ ActionItemsOfNote
  \/ ForwardLinksOfNote
  \/ BacklinksOfTitle

SpecRepeat == InitRepeat /\ [][NextRepeat]_vars

\* the call recorded in out repeats the call before it: same function, same input
Repeats(o) == o.op # "none" /\ o.prev.op = o.op /\ o.prev.arg = o.arg

Ascii ==
  << " ", "!", "\"", "#", "$", "%", "&", "'", "(", ")", "*", "+", ",", "-", ".", "/",
     "0", "1", "2", "3", "4", "5", "6", "7", "8", "9", ":", ";", "<", "=", ">", "?",
     "@", "A", "B", "C", "D", "E", "F", "G", "H", "I", "J", "K", "L", "M", "N", "O",
     "P", "Q", "R", "S", "T", "U", "V", "W", "X", "Y", "Z", "[", "\\", "]", "^", "_",
     "U+0060", "a", "b", "c", "d", "e", "f", "g", "h", "i", "j", "k", "l", "m", "n", "o",
     "p", "q", "r", "s", "t", "u", "v", "w", "x", "y", "z", "{", "|", "}", "~" >>

FirstAscii == 32

\* the character of a byte; a byte outside the printable range gives a
\* character that no name or password of the model holds
CharOfCode(code) ==
  IF code >= FirstAscii /\ code < FirstAscii + Len(Ascii) THEN Ascii[code - FirstAscii + 1]
  ELSE "U+FFFD"

Base64Alphabet ==
  << "A", "B", "C", "D", "E", "F", "G", "H", "I", "J", "K", "L", "M", "N", "O", "P",
     "Q", "R", "S", "T", "U", "V", "W", "X", "Y", "Z", "a", "b", "c", "d", "e", "f",
     "g", "h", "i", "j", "k", "l", "m", "n", "o", "p", "q", "r", "s", "t", "u", "v",
     "w", "x", "y", "z", "0", "1", "2", "3", "4", "5", "6", "7", "8", "9", "+", "/" >>

\* the six bits of a character of the base64 alphabet
Base64Value(c) == (CHOOSE k \in 1..Len(Base64Alphabet) : Base64Alphabet[k] = c) - 1

\* the bytes of one group of up to four base64 values
GroupBytes(v) ==
  (IF Len(v) >= 2 THEN <<v[1] * 4 + v[2] \div 16>> ELSE <<>>)
  \o (IF Len(v) >= 3 THEN <<(v[2] % 16) * 16 + v[3] \div 4>> ELSE <<>>)
  \o (IF Len(v) >= 4 THEN <<(v[3] % 4) * 64 + v[4]>> ELSE <<>>)

RECURSIVE BytesOf(_)
BytesOf(values) ==
  IF values = <<>> THEN <<>>
  ELSE IF Len(values) <= 4 THEN GroupBytes(values)
  ELSE GroupBytes(SubSeq(values, 1, 4)) \o BytesOf(SubSeq(values, 5, Len(values)))

\* Buffer.from(text, 'base64').toString(): the decoder skips a character
\* outside the alphabet and stops at the first "="
Base64Decode(text) ==
  LET stop == {i \in 1..Len(text) : text[i] = "="}
      upto == IF stop = {} THEN Len(text) ELSE Min(stop) - 1
      legal == SelectSeq(SubSeq(text, 1, upto), LAMBDA c : c \in Range(Base64Alphabet))
      bytes == BytesOf([k \in 1..Len(legal) |-> Base64Value(legal[k])])
  IN  [k \in 1..Len(bytes) |-> CharOfCode(bytes[k])]

RECURSIVE SplitFrom(_, _, _)
\* the parts of s from position pos on, cut at every sep
SplitFrom(s, sep, pos) ==
  LET cuts == {i \in pos..Len(s) : s[i] = sep}
  IN  IF cuts = {} THEN <<SubSeq(s, pos, Len(s))>>
      ELSE <<SubSeq(s, pos, Min(cuts) - 1)>> \o SplitFrom(s, sep, Min(cuts) + 1)

\* String.prototype.split with a one-character separator
split(s, sep) == SplitFrom(s, sep, 1)

\* array[k] of JavaScript, k counted from 0
ElementAt(arr, k) == IF k + 1 <= Len(arr) THEN arr[k + 1] ELSE Undefined

DefaultUser == <<"a", "d", "m", "i", "n">>

PassedOn == "next"

Unauthorized == "401"

TypeError == "TypeError"

\* the comparison of line 15 once the header is split
Decision(auth, validUser, validPass) ==
  IF ElementAt(auth, 0) = validUser /\ ElementAt(auth, 1) = validPass THEN PassedOn
  ELSE Unauthorized

\* lines 8-17 for the second part of the header: Buffer.from(undefined) throws
DecisionFor(authValue, validUser, validPass) ==
  IF authValue = Undefined THEN TypeError
  ELSE Decision(split(Base64Decode(authValue), ":"), validUser, validPass)

\* src/middleware.ts (the same function stands in the root middleware.ts):
\* authHeader is '' for a request without the header
middleware(authHeader, env) ==
  IF authHeader = <<>> THEN Unauthorized
  ELSE DecisionFor(ElementAt(split(authHeader, " "), 1),
                   IF env.SECOND_BRAIN_USER = Undefined THEN DefaultUser ELSE env.SECOND_BRAIN_USER,
                   env.SECOND_BRAIN_PASSWORD)

\* the try block of the third middleware: what is thrown is caught and the
\* request answered 401
CaughtDecision(decision) == IF decision = TypeError THEN Unauthorized ELSE decision

\* the third middleware: requests pass while a credential is not configured
middlewareForSetup(authHeader, env) ==
  IF env.SECOND_BRAIN_USER = Undefined \/ env.SECOND_BRAIN_PASSWORD = Undefined THEN PassedOn
  ELSE IF authHeader = <<>> THEN Unauthorized
  ELSE CaughtDecision(DecisionFor(ElementAt(split(authHeader, " "), 1),
                                  env.SECOND_BRAIN_USER, env.SECOND_BRAIN_PASSWORD))

MaxHeader == 3

\* the pieces of an Authorization header: the scheme, a blank, and the base64
\* texts of "admin:pw", "admin", "bob:pw" and "admin:x"
HeaderKeys ==
  {<<"B", "a", "s", "i", "c">>, <<" ">>, <<"Y", "W", "R", "t", "a", "W", "4", "6", "c", "H", "c", "=">>, <<"Y", "W", "R", "t", "a", "W", "4", "=">>, <<"Y", "m", "9", "i", "O", "n", "B", "3">>, <<"Y", "W", "R", "t", "a", "W", "4", "6", "e", "A", "=", "=">>}

\* process.env: each of the two variables set or not
Environments ==
  [SECOND_BRAIN_USER : {Undefined, <<"a", "d", "m", "i", "n">>, <<"b", "o", "b">>},
   SECOND_BRAIN_PASSWORD : {Undefined, <<"p", "w">>}]

Middlewares == {"src/middleware.ts", "middleware.ts", "unnamed"}

InitAuth ==
  /\ memories = <<>>
  /\ typed = <<>>
  /\ now = 0
  /\ out = NoCall

\* the client puts together the Authorization header of its next request
TypeHeader ==
  /\ Len(typed) < MaxHeader
  /\ \E p \in HeaderKeys : typed' = Append(typed, p)
  /\ out' = NoCall
  /\ UNCHANGED <<memories, now>>

\* a request for a protected page reaches the middleware of a deployment
Request ==
  /\ \E env \in Environments, file \in Middlewares :
       out' = [op |-> "middleware", arg |-> env, file |-> file,
               res |-> IF file = "unnamed" THEN middlewareForSetup(Text, env)
                       ELSE middleware(Text, env)]
  /\ UNCHANGED <<memories, typed, now>>

NextAuth == TypeHeader \/ Request

SpecAuth == InitAuth /\ [][NextAuth]_vars

\* the text after the first blank of the header, up to the next blank, is the
\* base64 text of user:password
Carries(header, user, password) ==
  /\ Len(split(header, " ")) >= 2
  /\ Base64Decode(split(header, " ")[2]) = user \o <<":">> \o password

\* the header carries the configured user (admin when none is configured) and
\* the configured password
Authorised(header, env) ==
  /\ env.SECOND_BRAIN_PASSWORD # Undefined
  /\ Carries(header,
             IF env.SECOND_BRAIN_USER = Undefined THEN DefaultUser ELSE env.SECOND_BRAIN_USER,
             env.SECOND_BRAIN_PASSWORD)

\* C16: in every configuration of SECOND_BRAIN_USER and SECOND_BRAIN_PASSWORD,
\* set or unset, the middleware passes a request on only if its Authorization
\* header decodes to the configured user and password; every other request, one
\* whose header has no password part included, is answered 401.
C16_PasswordProtected ==
  out.op = "middleware" =>
    IF Authorised(Text, out.arg) THEN out.res = PassedOn ELSE out.res = Unauthorized

(***************************************************************************)
(* api/memories/route.ts: POST and DELETE over the Redis keys              *)
(***************************************************************************)

\* redis.set(key, value)
RedisSet(store, key, value) ==
  [k \in (DOMAIN store) \cup {key} |-> IF k = key THEN value ELSE store[k]]

\* redis.del(key)
RedisDel(store, key) == [k \in (DOMAIN store) \ {key} |-> store[k]]

\* (await redis.get(key)) || []
RedisGetList(store, key) == IF key \in DOMAIN store THEN store[key] ELSE <<>>

LongTermPath == <<"M", "E", "M", "O", "R", "Y", ".", "m", "d">>

LongTermKey == <<"m", "e", "m", "o", "r", "i", "e", "s", ":", "l", "o", "n", "g", "t", "e", "r", "m">>

DailyListKey == <<"m", "e", "m", "o", "r", "i", "e", "s", ":", "d", "a", "i", "l", "y", ":", "l", "i", "s", "t">>

MetaSuffix == <<":", "m", "e", "t", "a">>

DailyKey(date) == <<"m", "e", "m", "o", "r", "i", "e", "s", ":", "d", "a", "i", "l", "y", ":">> \o date

AttachmentsKey(path) == <<"m", "e", "m", "o", "r", "i", "e", "s", ":", "a", "t", "t", "a", "c", "h", "m", "e", "n", "t", "s", ":">> \o path

\* path.replace('memory/', '').replace('.md', '')
DateOf(path) == RemoveFirst(RemoveFirst(path, <<"m", "e", "m", "o", "r", "y", "/">>), <<".", "m", "d">>)

\* the check of DELETE left out
IsLongTermPath_never(path) == FALSE

\* path === 'MEMORY.md'
IsLongTermPath(path) == path = LongTermPath

\* the attachments of a POST are stored when the request names them
WithAttachments(store, key, attachments) ==
  IF attachments # Undefined THEN RedisSet(store, key, attachments) ELSE store

WithListed(store, date) ==
  IF date \in Range(RedisGetList(store, DailyListKey)) THEN store
  ELSE RedisSet(store, DailyListKey, Append(RedisGetList(store, DailyListKey), date))

\* the store after POST {path, content, type, attachments} at the time stamp
Posted(store, path, content, type, attachments, stamp) ==
  IF type = "long-term" \/ IsLongTermPath(path)
  THEN WithAttachments(
         RedisSet(RedisSet(store, LongTermKey, content),
                  LongTermKey \o MetaSuffix, [lastModified |-> stamp]),
         AttachmentsKey(LongTermPath), attachments)
  ELSE WithAttachments(
         WithListed(
           RedisSet(RedisSet(store, DailyKey(DateOf(path)), content),
                    DailyKey(DateOf(path)) \o MetaSuffix, [lastModified |-> stamp]),
           DateOf(path)),
         AttachmentsKey(<<"m", "e", "m", "o", "r", "y", "/">> \o DateOf(path) \o <<".", "m", "d">>), attachments)

\* list.filter(d => d !== date)
Without(list, date) == SelectSeq(list, LAMBDA d : d # date)

\* the store after the deletions of DELETE for the date of the path
DeletedDate(store, date) ==
  RedisSet(
    RedisDel(RedisDel(RedisDel(store, DailyKey(date)), DailyKey(date) \o MetaSuffix),
             AttachmentsKey(<<"m", "e", "m", "o", "r", "y", "/">> \o date \o <<".", "m", "d">>)),
    DailyListKey, Without(RedisGetList(store, DailyListKey), date))

BadRequest == 400

Success == 200

\* DELETE {path}: the status of the response and the store it leaves
Deleted(store, path) ==
  IF IsLongTermPath(path) THEN [status |-> BadRequest, store |-> store]
  ELSE [status |-> Success, store |-> DeletedDate(store, DateOf(path))]

MaxClock == 1

RequestPaths == {LongTermPath, <<"m", "e", "m", "o", "r", "y", "/", "d", "1", ".", "m", "d">>, <<"m", "e", "m", "o", "r", "y", "/", "M", "E", "M", "O", "R", "Y", ".", "m", "d">>}

RequestTypes == {"long-term", "daily"}

RequestContents == {<<"x">>, <<"y">>}

RequestAttachments == {Undefined, <<<<"d", "o", "c">>>>}

InitStore ==
  /\ memories = <<>>
  /\ typed = <<>>
  /\ now = 0
  /\ out = NoCall

\* time passes between two requests
Tick ==
  /\ now < MaxClock
  /\ now' = now + 1
  /\ out' = NoCall
  /\ UNCHANGED <<memories, typed>>

PostMemory ==
  /\ \E path \in RequestPaths, content \in RequestContents,
        type \in RequestTypes, attachments \in RequestAttachments :
       /\ memories' = Posted(memories, path, content, type, attachments, now)
       /\ out' = [op |-> "POST", arg |-> path, status |-> Success]
  /\ UNCHANGED <<typed, now>>

DeleteMemory ==
  /\ \E path \in RequestPaths :
       /\ memories' = Deleted(memories, path).store
       /\ out' = [op |-> "DELETE", arg |-> path, status |-> Deleted(memories, path).status]
  /\ UNCHANGED <<typed, now>>

NextStore == Tick \/ PostMemory \/ DeleteMemory

SpecStore == InitStore /\ [][NextStore]_vars

\* the long-term note has been saved
LongTermStored(store) == LongTermKey \in DOMAIN store

\* C17: a DELETE request with the path MEMORY.md is answered 400 and leaves
\* every stored key as it was, and no POST or DELETE request removes the content
\* of the long-term note once it is saved.
C17_LongTermNoteNotDeleted ==
  [][ /\ (out'.op = "DELETE" /\ out'.arg = LongTermPath)
         => (out'.status = BadRequest /\ memories' = memories)
      /\ LongTermStored(memories) => LongTermStored(memories') ]_vars

\* the long-term note and a daily note are stored and a DELETE for MEMORY.md
\* has been refused
C17_Witness ==
  /\ out.op = "DELETE"
  /\ out.arg = LongTermPath
  /\ out.status = BadRequest
  /\ LongTermStored(memories)
  /\ DailyKey(<<"d", "1">>) \in DOMAIN memories

\* the titles findForwardLinks reports as not existing, over the notes of the
\* collection
UnresolvedTitles(mems) ==
  {T \in LinkedTitles(mems) :
     \E i \in 1..Len(mems) :
       \E k \in ReportsFor(findForwardLinks(mems[i].content, mems), T) :
         ~findForwardLinks(mems[i].content, mems)[k].exists}

\* buildLinkGraph points the edge of the note at path for the title to the
\* virtual node of the title
HasVirtualEdge(mems, path, title) ==
  [source |-> path, target |-> VirtualId(title)] \in Range(buildLinkGraph(mems).edges)

\* C18: the three link functions resolve a title by one rule: for every title T
\* linked from a note, findForwardLinks reports exists = false for T exactly when
\* buildLinkGraph points the edge of T at the virtual node virtual:T, and the
\* titles so reported are the ones getLinkStats counts in orphanLinks.
C18_OneRuleForThreeFunctions ==
  out.op = "findForwardLinks" =>
    /\ \A k \in 1..Len(out.res) :
         ~out.res[k].exists
         <=> HasVirtualEdge(memories, memories[out.arg].path, out.res[k].title)
    /\ getLinkStats(memories).orphanLinks = Cardinality(UnresolvedTitles(memories))

\* the notes of the window, in the order the summary reads them
WindowNotes == SelectSeq(memories, LAMBDA m : m.lastModified >= now - WeekMs)

\* the note mentions a deal
IsDealNote(lower) ==
  HasAny(lower, {<<"d", "e", "a", "l">>, <<"c", "o", "n", "t", "r", "a", "c", "t">>, <<"p", "r", "o", "p", "o", "s", "a", "l">>, <<"t", "e", "n", "d", "e", "r">>})

\* the status the keyword ladder gives: the first rung whose keyword the note holds
LadderStatus(lower) ==
  IF HasAny(lower, {<<"w", "o", "n">>, <<"s", "i", "g", "n", "e", "d">>, <<"c", "l", "o", "s", "e", "d">>}) THEN "Won"
  ELSE IF HasAny(lower, {<<"l", "o", "s", "t">>, <<"d", "e", "c", "l", "i", "n", "e", "d">>}) THEN "Lost"
  ELSE IF HasAny(lower, {<<"s", "u", "b", "m", "i", "t", "t", "e", "d">>}) THEN "Submitted"
  ELSE "In Progress"

\* C20: the status of every detected deal follows the ladder in the order Won,
\* Lost, Submitted, In Progress: Won for a deal note with "won", "signed" or
\* "closed"; otherwise Lost with "lost" or "declined"; otherwise Submitted with
\* "submitted"; otherwise In Progress.
C20_DealStatusLadder ==
  (out.op = "generateWeeklySummary" /\ Len(WindowNotes) = 1
     /\ IsDealNote(toLowerCase(WindowNotes[1].content))) =>
    \A k \in 1..Len(out.res.deals) :
      out.res.deals[k].status = LadderStatus(toLowerCase(WindowNotes[1].content))

\* the [[title]] mentions of a title in one text, every mention counted
MentionsIn(content, ms, title) ==
  Cardinality({k \in 1..Len(ms) : trim(SubSeq(content, ms[k].start + 2, ms[k].end - 3)) = title})

RECURSIVE RawMentions(_, _, _)
\* the [[title]] mentions of a title over the notes from the m-th on
RawMentions(mems, m, title) ==
  IF m > Len(mems) THEN 0
  ELSE MentionsIn(mems[m].content, WikiMatches(mems[m].content), title)
       + RawMentions(mems, m + 1, title)

RECURSIVE SumOfCounts(_, _)
SumOfCounts(list, k) ==
  IF k > Len(list) THEN 0 ELSE list[k].count + SumOfCounts(list, k + 1)

\* C21: mostLinked lists at most 10 distinct titles in non-increasing order of
\* count, the count of a title being the number of its [[title]] mentions over
\* all notes, two mentions in one note counted twice, and totalLinks is the sum
\* of the counts of all titles.
C21_MostLinkedByRawMentions ==
  out.op = "getLinkStats" =>
    /\ Len(out.res.mostLinked) <= MostLinkedCap
    /\ \A j, k \in 1..Len(out.res.mostLinked) :
         j # k => out.res.mostLinked[j].title # out.res.mostLinked[k].title
    /\ \A k \in 1..(Len(out.res.mostLinked) - 1) :
         out.res.mostLinked[k].count >= out.res.mostLinked[k + 1].count
    /\ \A k \in 1..Len(out.res.mostLinked) :
         out.res.mostLinked[k].count = RawMentions(memories, 1, out.res.mostLinked[k].title)
    /\ Cardinality(LinkedTitles(memories)) <= MostLinkedCap
         => out.res.totalLinks = SumOfCounts(out.res.mostLinked, 1)

\* no value stands twice in the list
NoDuplicates(list) == \A j, k \in 1..Len(list) : j # k => list[j] # list[k]

NamesOf(top) == [k \in 1..Len(top) |-> top[k].name]

\* C22: no listing of the summary holds a value twice: the names of
\* topContacts, topTags and topCompanies, and the contacts of every meeting,
\* also when a note mentions the same @contact several times.
C22_ListingsWithoutDuplicates ==
  out.op = "generateWeeklySummary" =>
    /\ NoDuplicates(NamesOf(out.res.topContacts))
    /\ NoDuplicates(NamesOf(out.res.topTags))
    /\ NoDuplicates(NamesOf(out.res.topCompanies))
    /\ \A k \in 1..Len(out.res.meetings) : NoDuplicates(out.res.meetings[k].contacts)

\* the places where the exec loop of the checkbox pattern finds its matches
CheckboxPlaces(s) == ScanAll([i \in 1..Len(s) |-> OptionalCheckboxAt(s, i).end])

\* the places where the exec loop of the follow-up pattern finds its matches
FollowUpPlaces(s) == ScanAll([i \in 1..Len(s) |-> FollowUpAt(s, i).end])

FollowUpPrefix == <<"F", "o", "l", "l", "o", "w", " ", "u", "p", " ", "w", "i", "t", "h", " ">>

\* items[k] is the item of the checkbox found at the place
IsCheckboxItemAt(item, s, place) ==
  item = CheckboxItem(SubSeq(s, OptionalCheckboxAt(s, place.start).from,
                             OptionalCheckboxAt(s, place.start).to))

\* the item is the follow-up item of the match found at the place
IsFollowUpItemAt(item, s, place) ==
  /\ item.priority = "medium"
  /\ item.text = FollowUpPrefix \o trim(SubSeq(s, FollowUpAt(s, place.start).from,
                                               FollowUpAt(s, place.start).to))

\* the items are the checkbox items at the places cb, in their order, and then
\* the follow-up items at the places fu, in their order
CheckboxesThenFollowUps(items, s, cb, fu) ==
  /\ Len(items) = Len(cb) + Len(fu)
  /\ \A k \in 1..Len(cb) : IsCheckboxItemAt(items[k], s, cb[k])
  /\ \A k \in 1..Len(fu) : IsFollowUpItemAt(items[Len(cb) + k], s, fu[k])
  /\ \A k \in 1..(Len(cb) - 1) : cb[k].start < cb[k + 1].start
  /\ \A k \in 1..(Len(fu) - 1) : fu[k].start < fu[k + 1].start

\* C23: in the list of extractActionItems every checkbox item comes before
\* every follow-up item, the checkbox items in the order of their places in the
\* text and the follow-up items in the order of theirs; every follow-up item
\* has priority medium and the text "Follow up with <target>".
C23_CheckboxItemsBeforeFollowUps ==
  out.op = "extractActionItems" =>
    CheckboxesThenFollowUps(out.res, Text, CheckboxPlaces(Text), FollowUpPlaces(Text))

\* a follow-up stands before a checkbox in the text, and the checkbox item is
\* listed first
C23_Witness ==
  /\ out.op = "extractActionItems"
  /\ Text = <<"f", "o", "l", "l", "o", "w", " ", "u", "p", " ", "w", "i", "t", "h", " ", "A", "l", ",", " ", "-", " ", "[", " ", "]", " ", "C", "a", "l", "l">>
  /\ Len(out.res) = 2
  /\ out.res[1].text = <<"C", "a", "l", "l">>
  /\ out.res[2].text = <<"F", "o", "l", "l", "o", "w", " ", "u", "p", " ", "w", "i", "t", "h", " ", "A", "l">>

(***************************************************************************)
(* voice-capture.ts: extractVoiceActionItems                               *)
(***************************************************************************)

\* the four patterns of lines 104-107: the alternatives of the head, whether
\* (?:with\s+)? follows the blanks, and the alternatives of the terminator
\* other than $; the patterns carry the i flag, so they are matched against
\* the lower-cased text
VoicePatterns ==
  << [heads |-> <<<<"n", "e", "e", "d", " ", "t", "o">>, <<"h", "a", "v", "e", " ", "t", "o">>, <<"s", "h", "o", "u", "l", "d">>, <<"m", "u", "s", "t">>, <<"w", "i", "l", "l">>>>,
      withOpt |-> FALSE,
      stops |-> <<<<".">>, <<",">>, <<"b", "e", "f", "o", "r", "e">>, <<"b", "y">>, <<"t", "o", "m", "o", "r", "r", "o", "w">>, <<"t", "o", "d", "a", "y">>>>],
     [heads |-> <<<<"f", "o", "l", "l", "o", "w", " ", "u", "p">>, <<"f", "o", "l", "l", "o", "w", "-", "u", "p">>, <<"f", "o", "l", "l", "o", "w", "u", "p">>>>,
      withOpt |-> TRUE,
      stops |-> <<<<".">>, <<",">>, <<"b", "y">>, <<"b", "e", "f", "o", "r", "e">>, <<"t", "o", "m", "o", "r", "r", "o", "w">>, <<"t", "o", "d", "a", "y">>>>],
     [heads |-> <<<<"s", "e", "n", "d">>, <<"e", "m", "a", "i", "l">>, <<"c", "a", "l", "l">>, <<"m", "e", "s", "s", "a", "g", "e">>, <<"w", "r", "i", "t", "e">>>>,
      withOpt |-> FALSE,
      stops |-> <<<<".">>, <<",">>, <<"b", "y">>, <<"b", "e", "f", "o", "r", "e">>, <<"t", "o", "m", "o", "r", "r", "o", "w">>, <<"t", "o", "d", "a", "y">>>>],
     [heads |-> <<<<"r", "e", "m", "e", "m", "b", "e", "r", " ", "t", "o">>, <<"d", "o", "n", "'", "t", " ", "f", "o", "r", "g", "e", "t", " ", "t", "o">>, <<"m", "a", "k", "e", " ", "s", "u", "r", "e", " ", "t", "o">>>>,
      withOpt |-> FALSE,
      stops |-> <<<<".">>, <<",">>>>] >>

\* the length of the first alternative of alts that occurs at position i, and
\* -1 when none does
FirstAlternative(lower, alts, i) ==
  LET hit == {k \in 1..Len(alts) : OccursAt(lower, alts[k], i)}
  IN  IF hit = {} THEN 0 - 1 ELSE Len(alts[Min(hit)])

\* the terminator group at position e: the length it takes, 0 for $, -1 when
\* it does not match
VoiceTerminatorAt(lower, stops, e) ==
  IF FirstAlternative(lower, stops, e) >= 0 THEN FirstAlternative(lower, stops, e)
  ELSE IF e = Len(lower) + 1 THEN 0 ELSE 0 - 1

\* (.+?) started at g and followed by the terminator: the position after the
\* group, 0 when the match cannot be completed; . matches no line break
VoiceGroupEnd(lower, stops, g) ==
  LET ok == {e \in (g + 1)..(g + RunLength(lower, g, LineChars(lower))) :
               VoiceTerminatorAt(lower, stops, e) >= 0}
  IN  IF ok = {} THEN 0 ELSE Min(ok)

\* the starts of (.+?) the matcher tries behind the head that ends before k,
\* in its order: \s+ takes all the blanks and gives them back one at a time;
\* (?:with\s+)? is tried taken before it is tried skipped
VoiceGroupStarts(lower, k, withOpt) ==
  LET w == SpaceRun(lower, k)
      p == k + w
      w2 == SpaceRun(lower, p + 4)
  IN  (IF withOpt /\ w >= 1 /\ OccursAt(lower, <<"w", "i", "t", "h">>, p)
       THEN [n \in 1..w2 |-> p + 4 + w2 + 1 - n] ELSE <<>>)
      \o [n \in 1..w |-> p + 1 - n]

NoVoiceMatch == [end |-> 0, from |-> 0, to |-> 0]

VoiceMatchFrom(lower, stops, starts) ==
  LET good == {n \in 1..Len(starts) : VoiceGroupEnd(lower, stops, starts[n]) # 0}
  IN  IF good = {} THEN NoVoiceMatch
      ELSE [end |-> VoiceGroupEnd(lower, stops, starts[Min(good)])
                    + VoiceTerminatorAt(lower, stops,
                                        VoiceGroupEnd(lower, stops, starts[Min(good)])),
            from |-> starts[Min(good)],
            to |-> VoiceGroupEnd(lower, stops, starts[Min(good)]) - 1]

\* one pattern at position i: group 1 is from..to, end is the position after
\* the match (0 when the pattern does not match at i)
VoiceMatchAt(lower, pattern, i) ==
  IF FirstAlternative(lower, pattern.heads, i) < 0 THEN NoVoiceMatch
  ELSE VoiceMatchFrom(lower, pattern.stops,
         VoiceGroupStarts(lower, i + FirstAlternative(lower, pattern.heads, i),
                          pattern.withOpt))

\* the while loop of line 112 for one pattern: match[1] of every match
VoiceGroupsOf(text, at) ==
  LET ms == ScanAll([i \in 1..Len(text) |-> at[i].end])
  IN  [k \in 1..Len(ms) |-> SubSeq(text, at[ms[k].start].from, at[ms[k].start].to)]

VoiceGroups(text, pattern) ==
  VoiceGroupsOf(text, [i \in 1..Len(text) |-> VoiceMatchAt(toLowerCase(text), pattern, i)])

\* item.match(/(.+?)\s+to\s+(.+)/) on a trimmed item without line break: the
\* lengths group 1 can have; the shortest is taken
AssigneeStops(item) ==
  {e \in 1..Len(item) :
     /\ SpaceRun(item, e + 1) >= 1
     /\ OccursAt(item, <<"t", "o">>, e + 1 + SpaceRun(item, e + 1))
     /\ SpaceRun(item, e + 3 + SpaceRun(item, e + 1)) >= 1}

AfterTo(item, e) == e + 3 + SpaceRun(item, e + 1)

\* lines 113-121: the item and its assignee
VoiceItem(item, dueDate) ==
  IF AssigneeStops(item) = {}
  THEN [text |-> item, assignee |-> Undefined, dueDate |-> dueDate]
  ELSE [text |-> SubSeq(item, AfterTo(item, Min(AssigneeStops(item)))
                              + SpaceRun(item, AfterTo(item, Min(AssigneeStops(item)))),
                        Len(item)),
        assignee |-> SubSeq(item, 1, Min(AssigneeStops(item))),
        dueDate |-> dueDate]

\* lines 124-129
VoiceDueDate(lower) ==
  IF includes(lower, <<"t", "o", "m", "o", "r", "r", "o", "w">>) THEN <<"t", "o", "m", "o", "r", "r", "o", "w">>
  ELSE IF includes(lower, <<"t", "o", "d", "a", "y">>) THEN <<"t", "o", "d", "a", "y">>
  ELSE IF includes(lower, <<"n", "e", "x", "t", " ", "w", "e", "e", "k">>) THEN <<"n", "e", "x", "t", " ", "w", "e", "e", "k">>
  ELSE IF includes(lower, <<"b", "y", " ", "f", "r", "i", "d", "a", "y">>) THEN <<"F", "r", "i", "d", "a", "y">>
  ELSE IF includes(lower, <<"b", "y", " ", "m", "o", "n", "d", "a", "y">>) THEN <<"M", "o", "n", "d", "a", "y">>
  ELSE Undefined

MinItemLength == 5

\* line 131 without the test for an item of the same text
Pushed_everyItem(items, item) ==
  IF Len(item.text) > MinItemLength THEN Append(items, item) ELSE items

Pushed(items, item) ==
  IF Len(item.text) > MinItemLength /\ \A k \in 1..Len(items) : items[k].text # item.text
  THEN Append(items, item) ELSE items

RECURSIVE PushAll(_, _, _, _)
PushAll(items, groups, k, dueDate) ==
  IF k > Len(groups) THEN items
  ELSE PushAll(Pushed(items, VoiceItem(trim(groups[k]), dueDate)), groups, k + 1, dueDate)

extractVoiceActionItems(text) ==
  PushAll(<<>>,
          VoiceGroups(text, VoicePatterns[1]) \o VoiceGroups(text, VoicePatterns[2])
          \o VoiceGroups(text, VoicePatterns[3]) \o VoiceGroups(text, VoicePatterns[4]),
          1, VoiceDueDate(toLowerCase(text)))

(***************************************************************************)
(* A dictated transcript, and its action items                             *)
(***************************************************************************)

MaxDictated == 2

DictatedPhrases ==
  { <<"T", "o", "d", "a", "y", " ", "w", "e", " ", "s", "h", "o", "u", "l", "d", " ", "c", "a", "l", "l", " ", "A", "l", " ", "t", "o", " ", "s", "i", "g", "n", " ", "i", "t", ",", " ", "e", "m", "a", "i", "l", " ", "t", "h", "e", " ", "v", "e", "n", "d", "o", "r">>,
    <<" ", "t", "o", "m", "o", "r", "r", "o", "w">>,
    <<".", " ">>,
    <<"I", " ", "m", "u", "s", "t", " ", "w", "r", "i", "t", "e", " ", "t", "h", "e", " ", "r", "e", "p", "o", "r", "t">>,
    <<" ", "b", "y", " ", "F", "r", "i", "d", "a", "y">>,
    <<"r", "e", "m", "e", "m", "b", "e", "r", " ", "t", "o", " ", "f", "o", "l", "l", "o", "w", " ", "u", "p", " ", "w", "i", "t", "h", " ", "B", "o", " ", "n", "e", "x", "t", " ", "w", "e", "e", "k", ",">>,
    <<"w", "i", "l", "l", " ", " ", "b", "y", " ", "M", "o", "n", "d", "a", "y", "\n">>,
    <<" ", "t", "o", "d", "a", "y">> }

InitVoice ==
  /\ memories = <<>>
  /\ typed = <<>>
  /\ now = 0
  /\ out = NoCall

DictatePhrase ==
  /\ Len(typed) < MaxDictated
  /\ \E p \in DictatedPhrases : typed' = Append(typed, p)
  /\ out' = NoCall
  /\ UNCHANGED <<memories, now>>

CallExtractVoiceActionItems ==
  /\ out' = [op |-> "extractVoiceActionItems", res |-> extractVoiceActionItems(Text)]
  /\ UNCHANGED <<memories, typed, now>>

NextVoice == DictatePhrase \/ CallExtractVoiceActionItems

SpecVoice == InitVoice /\ [][NextVoice]_vars

\* the due date the keywords of the whole transcript stand for
DueDateOfTranscript ==
  IF includes(toLowerCase(Text), <<"t", "o", "m", "o", "r", "r", "o", "w">>) THEN <<"t", "o", "m", "o", "r", "r", "o", "w">>
  ELSE IF includes(toLowerCase(Text), <<"t", "o", "d", "a", "y">>) THEN <<"t", "o", "d", "a", "y">>
  ELSE IF includes(toLowerCase(Text), <<"n", "e", "x", "t", " ", "w", "e", "e", "k">>) THEN <<"n", "e", "x", "t", " ", "w", "e", "e", "k">>
  ELSE IF includes(toLowerCase(Text), <<"b", "y", " ", "f", "r", "i", "d", "a", "y">>) THEN <<"F", "r", "i", "d", "a", "y">>
  ELSE IF includes(toLowerCase(Text), <<"b", "y", " ", "m", "o", "n", "d", "a", "y">>) THEN <<"M", "o", "n", "d", "a", "y">>
  ELSE Undefined

\* C24: all action items of one call of extractVoiceActionItems carry the due
\* date of the first keyword of the ladder tomorrow, today, next week, by
\* friday, by monday found anywhere in the transcript (undefined when there is
\* none), their texts are pairwise distinct, and each is longer than 5
\* characters.
C24_OneDueDateDistinctTexts ==
  out.op = "extractVoiceActionItems" =>
    /\ \A k \in 1..Len(out.res) :
         /\ out.res[k].dueDate = DueDateOfTranscript
         /\ Len(out.res[k].text) > 5
    /\ \A j, k \in 1..Len(out.res) : j # k => out.res[j].text # out.res[k].text

\* C24 witness: a transcript with today and tomorrow in it gave two items, the
\* text "sign it" found by two patterns being kept once.
C24_Witness ==
  /\ out.op = "extractVoiceActionItems"
  /\ includes(toLowerCase(Text), <<"t", "o", "d", "a", "y">>)
  /\ includes(toLowerCase(Text), <<"t", "o", "m", "o", "r", "r", "o", "w">>)
  /\ Len(out.res) >= 2
  /\ Cardinality({k \in 1..Len(out.res) : out.res[k].text = <<"s", "i", "g", "n", " ", "i", "t">>}) = 1
  /\ \A k \in 1..Len(out.res) : out.res[k].dueDate = <<"t", "o", "m", "o", "r", "r", "o", "w">>

(***************************************************************************)
(* api/memories-enhanced/route.ts: the tag index and the by-tag filter     *)
(***************************************************************************)

MemoryPrefix == <<"m", "e", "m", "o", "r", "y", "/">>

MarkdownSuffix == <<".", "m", "d">>

\* lines 261-274: the long-term note, when its content is not empty
LongTermMemories(store) ==
  IF LongTermKey \in DOMAIN store /\ store[LongTermKey] # <<>>
  THEN << [name |-> <<"L", "o", "n", "g", "-", "t", "e", "r", "m", " ", "M", "e", "m", "o", "r", "y">>, path |-> LongTermPath,
           content |-> store[LongTermKey],
           lastModified |-> store[LongTermKey \o MetaSuffix].lastModified] >>
  ELSE <<>>

\* lines 277-294: the daily notes of memories:daily:list whose content is
\* stored and not empty, in the order of the list
DailyMemories(store) ==
  LET list == RedisGetList(store, DailyListKey)
      stored == SelectSeq(list, LAMBDA d : DailyKey(d) \in DOMAIN store /\ store[DailyKey(d)] # <<>>)
  IN  [k \in 1..Len(stored) |->
         [name |-> stored[k], path |-> MemoryPrefix \o stored[k] \o MarkdownSuffix,
          content |-> store[DailyKey(stored[k])],
          lastModified |-> store[DailyKey(stored[k]) \o MetaSuffix].lastModified]]

\* line 296: the latest note first, notes of one time stamp in their order
SortedByLastModified(mems) ==
  LET keyed == [k \in 1..Len(mems) |-> [key |-> 0 - mems[k].lastModified, val |-> mems[k]]]
      sorted == StableSortKeyed(keyed, 1, <<>>)
  IN  [k \in 1..Len(sorted) |-> sorted[k].val]

getAllMemories(store) == SortedByLastModified(LongTermMemories(store) \o DailyMemories(store))

RECURSIVE TagCounts(_, _, _)
\* lines 20-27: tagCounts after the notes from the k-th on
TagCounts(counts, mems, k) ==
  IF k > Len(mems) THEN counts
  ELSE TagCounts(IncrementAll(counts, parseMemoryContent(mems[k].content).tags, 1), mems, k + 1)

\* GET ?action=tags
GetTags(store) == SortByCountDesc(ObjectEntries(TagCounts(<<>>, getAllMemories(store), 1)))

\* GET ?action=by-tag&tag=...
GetByTag(store, tag) ==
  SelectSeq(getAllMemories(store),
            LAMBDA m : toLowerCase(tag) \in Range(parseMemoryContent(m.content).tags))

(***************************************************************************)
(* Notes saved with tags, and the two tag requests                         *)
(***************************************************************************)

TaggedPaths == {LongTermPath, <<"m", "e", "m", "o", "r", "y", "/", "d", "1", ".", "m", "d">>, <<"m", "e", "m", "o", "r", "y", "/", "d", "2", ".", "m", "d">>}

TaggedContents == {<<"#", "a", " ", "#", "A">>, <<"#", "a", "b">>, <<"x", "#", "b", " ", "#", "a">>, <<"#", "c", "o", "n", "s", "t", "r", "u", "c", "t", "o", "r">>, <<"#", "_", "_", "p", "r", "o", "t", "o", "_", "_", " ", "#", "b">>}

QueryTags == {<<"a">>, <<"A">>, <<"b">>, <<"a", "b">>, <<"c", "o", "n", "s", "t", "r", "u", "c", "t", "o", "r">>, <<"_", "_", "p", "r", "o", "t", "o", "_", "_">>}

InitTags ==
  /\ memories = <<>>
  /\ typed = <<>>
  /\ now = 0
  /\ out = NoCall

PostTagged ==
  /\ \E path \in TaggedPaths, content \in TaggedContents :
       /\ memories' = Posted(memories, path, content, "daily", Undefined, now)
       /\ out' = [op |-> "POST", arg |-> path]
  /\ UNCHANGED <<typed, now>>

RequestTags ==
  /\ out' = [op |-> "tags", res |-> GetTags(memories)]
  /\ UNCHANGED <<memories, typed, now>>

RequestByTag ==
  /\ \E tag \in QueryTags : out' = [op |-> "by-tag", arg |-> tag, res |-> GetByTag(memories, tag)]
  /\ UNCHANGED <<memories, typed, now>>

NextTags == PostTagged \/ RequestTags \/ RequestByTag

SpecTags == InitTags /\ [][NextTags]_vars

\* the text holds the token #t: a # followed by the letters of t in either
\* case and then by no further tag character
HoldsTagToken(text, t) ==
  \E i \in 1..Len(text) :
    /\ text[i] = "#"
    /\ OccursAt(toLowerCase(text), toLowerCase(t), i + 1)
    /\ CharAt(text, i + 1 + Len(t)) \notin TagChars

\* the count the index reports for the tag, none when the tag is not in it
ReportedCount(index, t) ==
  IF \E k \in 1..Len(index) : index[k].name = toLowerCase(t)
  THEN {index[k].count : k \in {j \in 1..Len(index) : index[j].name = toLowerCase(t)}}
  ELSE {}

\* C25: the count the tag index reports for a tag is the number of notes the
\* by-tag filter returns for it in any letter case, and the filter returns
\* exactly the notes whose text holds the token #t compared without regard to
\* case, each of them once.
C25_TagIndexAgreesWithFilter ==
  /\ out.op = "tags" =>
       \A t \in QueryTags :
         /\ Len(GetByTag(memories, t)) > 0 => ReportedCount(out.res, t) = {Len(GetByTag(memories, t))}
         /\ Len(GetByTag(memories, t)) = 0 => ReportedCount(out.res, t) = {}
  /\ out.op = "by-tag" =>
       out.res = SelectSeq(getAllMemories(memories), LAMBDA m : HoldsTagToken(m.content, out.arg))

\* the paths of the notes the backlinks come from
SourcePaths(backlinks) == {backlinks[k].sourcePath : k \in 1..Len(backlinks)}

\* the titles a note's forward links list
ForwardTitles(content, mems) ==
  {findForwardLinks(content, mems)[k].title : k \in 1..Len(findForwardLinks(content, mems))}

\* C26: forward links and backlinks are converse: when findForwardLinks lists
\* a title T for a note A of the collection, findBacklinks(T) holds a backlink
\* with the path of A; and every backlink returned for T comes from a note
\* whose forward links include T.
C26_ForwardAndBackConverse ==
  /\ out.op = "findForwardLinks" =>
       \A k \in 1..Len(out.res) :
         memories[out.arg].path \in SourcePaths(findBacklinks(out.res[k].title, memories))
  /\ out.op = "findBacklinks" =>
       \A k \in 1..Len(out.res) :
         \E i \in 1..Len(memories) :
           /\ memories[i].path = out.res[k].sourcePath
           /\ out.arg \in ForwardTitles(memories[i].content, memories)

IsVirtualNode(node) == OccursAt(node.id, <<"v", "i", "r", "t", "u", "a", "l", ":">>, 1)

\* the distinct titles between [[ and ]] in the content, blanks around a title
\* left out
DistinctTitles(content) ==
  {trim(SubSeq(content, WikiMatches(content)[k].start + 2, WikiMatches(content)[k].end - 3)) :
     k \in 1..Len(WikiMatches(content))}

EdgesLeaving(g, path) == {e \in 1..Len(g.edges) : g.edges[e].source = path}

\* C27: the graph of buildLinkGraph has exactly one real node per note, with
\* the path as id, no two virtual nodes of one id, every edge leaves the path
\* of a note and arrives at the id of a node of the graph, and a note has as
\* many edges leaving it as its content has distinct link titles.
C27_LinkGraphWellFormed ==
  out.op = "buildLinkGraph" =>
    /\ \A i \in 1..Len(memories) :
         Cardinality({n \in 1..Len(out.res.nodes) : out.res.nodes[n].id = memories[i].path}) = 1
    /\ Cardinality({n \in 1..Len(out.res.nodes) : ~IsVirtualNode(out.res.nodes[n])}) = Len(memories)
    /\ \A n, p \in 1..Len(out.res.nodes) :
         (n # p /\ IsVirtualNode(out.res.nodes[n])) => out.res.nodes[n].id # out.res.nodes[p].id
    /\ \A e \in 1..Len(out.res.edges) :
         /\ \E i \in 1..Len(memories) : out.res.edges[e].source = memories[i].path
         /\ out.res.edges[e].target \in NodeIds(out.res)
    /\ \A i \in 1..Len(memories) :
         Cardinality(EdgesLeaving(out.res, memories[i].path))
           = Cardinality(DistinctTitles(memories[i].content))

\* C27 witness: the graph of two notes, one naming a title twice, the other a
\* title no note has: one edge for each note, and one virtual node.
C27_Witness ==
  /\ out.op = "buildLinkGraph"
  /\ Len(memories) = 2
  /\ Len(WikiMatches(memories[1].content)) > Cardinality(DistinctTitles(memories[1].content))
  /\ Cardinality(EdgesLeaving(out.res, memories[1].path)) = 1
  /\ Cardinality({n \in 1..Len(out.res.nodes) : IsVirtualNode(out.res.nodes[n])}) = 1
  /\ \E e \in EdgesLeaving(out.res, memories[2].path) :
       out.res.edges[e].target \notin {memories[1].path, memories[2].path}

(***************************************************************************)
(* Concurrent saves of daily notes: POST /api/memories, the browser        *)
(* capture and the email capture.  Every await of a handler is a step of   *)
(* its own; typed holds the requests with the place each has reached and   *)
(* what it has read, memories is the Redis store.                          *)
(***************************************************************************)

MaxRequests == 2

SaveDates == {<<"d", "1">>, <<"d", "2">>}

ClipText == <<"c", "l", "i", "p">>

WebSeparator == <<"\n", "\n", "-", "-", "-", "\n", "\n">>

EmailSeparator == <<"\n", "\n", "-", "-", "-", "\n">>

\* the content a capture stores: appended to the content it has read, or
\* under the heading of a new daily note
CapturedContent(r) ==
  IF r.existing # Undefined /\ r.existing # <<>>
  THEN r.existing \o (IF r.kind = "browser" THEN WebSeparator ELSE EmailSeparator) \o r.content
  ELSE <<"#", " ">> \o r.date \o <<"\n", "\n", "#", "#", " ">>
       \o (IF r.kind = "browser" THEN <<"W", "e", "b", " ", "C", "l", "i", "p", "s">> ELSE <<"E", "m", "a", "i", "l", " ", "C", "a", "p", "t", "u", "r", "e", "s">>)
       \o <<"\n", "\n">> \o r.content \o <<"\n">>

InitSaves ==
  /\ memories = <<>>
  /\ typed = <<>>
  /\ now = 0
  /\ out = NoCall

\* POST /api/memories {path, content} for a daily note arrives
StartPost ==
  /\ Len(typed) < MaxRequests
  /\ \E date \in SaveDates, content \in RequestContents :
       typed' = Append(typed, [kind |-> "POST", date |-> DateOf(MemoryPrefix \o date \o MarkdownSuffix),
                               content |-> content, pc |-> "setContent",
                               existing |-> Undefined, list |-> <<>>])
  /\ UNCHANGED <<memories, now, out>>

\* a browser capture or an email capture arrives on the day today
StartCapture ==
  /\ Len(typed) < MaxRequests
  /\ \E kind \in {"browser", "email"}, today \in SaveDates :
       typed' = Append(typed, [kind |-> kind, date |-> today,
                               content |-> ClipText, pc |-> "getExisting",
                               existing |-> Undefined, list |-> <<>>])
  /\ UNCHANGED <<memories, now, out>>

\* const existingContent = await redis.get(`memories:daily:${today}`)
GetExisting(i) ==
  /\ typed[i].pc = "getExisting"
  /\ typed' = [typed EXCEPT ![i].pc = "setContent",
                            ![i].existing = IF DailyKey(typed[i].date) \in DOMAIN memories
                                            THEN memories[DailyKey(typed[i].date)]
                                            ELSE Undefined]
  /\ UNCHANGED <<memories, now, out>>

\* await redis.set(`memories:daily:${date}`, ...)
SetContent(i) ==
  /\ typed[i].pc = "setContent"
  /\ memories' = RedisSet(memories, DailyKey(typed[i].date),
                          IF typed[i].kind = "POST" THEN typed[i].content
                          ELSE CapturedContent(typed[i]))
  /\ typed' = [typed EXCEPT ![i].pc = "setMeta"]
  /\ UNCHANGED <<now, out>>

\* await redis.set(`memories:daily:${date}:meta`, ...); a capture that has
\* appended to a note is then done
SetMeta(i) ==
  /\ typed[i].pc = "setMeta"
  /\ memories' = RedisSet(memories, DailyKey(typed[i].date) \o MetaSuffix, [lastModified |-> now])
  /\ typed' = [typed EXCEPT ![i].pc =
                 IF typed[i].kind # "POST" /\ typed[i].existing # Undefined /\ typed[i].existing # <<>>
                 THEN "done" ELSE "getList"]
  /\ out' = IF typed'[i].pc = "done" THEN [op |-> typed[i].kind, arg |-> typed[i].date] ELSE out
  /\ UNCHANGED now

\* const list = await redis.get('memories:daily:list') || []
GetList(i) ==
  /\ typed[i].pc = "getList"
  /\ typed' = [typed EXCEPT ![i].list = RedisGetList(memories, DailyListKey),
                            ![i].pc = IF typed[i].date \in Range(RedisGetList(memories, DailyListKey))
                                      THEN "done" ELSE "setList"]
  /\ out' = IF typed'[i].pc = "done" THEN [op |-> typed[i].kind, arg |-> typed[i].date] ELSE out
  /\ UNCHANGED <<memories, now>>

\* await redis.set('memories:daily:list', [...list, date])
SetList(i) ==
  /\ typed[i].pc = "setList"
  /\ memories' = RedisSet(memories, DailyListKey, Append(typed[i].list, typed[i].date))
  /\ typed' = [typed EXCEPT ![i].pc = "done"]
  /\ out' = [op |-> typed[i].kind, arg |-> typed[i].date]
  /\ UNCHANGED now

NextSaves ==
  \/ StartPost
  \/ StartCapture
  \/ \E i \in 1..Len(typed) : GetExisting(i)
  \/ \E i \in 1..Len(typed) : SetContent(i)
  \/ \E i \in 1..Len(typed) : SetMeta(i)
  \/ \E i \in 1..Len(typed) : GetList(i)
  \/ \E i \in 1..Len(typed) : SetList(i)

SpecSaves == InitSaves /\ [][NextSaves]_vars

\* every request that has arrived has been answered
AllAnswered == \A i \in 1..Len(typed) : typed[i].pc = "done"

TimesListed(store, date) ==
  Cardinality({k \in 1..Len(RedisGetList(store, DailyListKey)) :
                 RedisGetList(store, DailyListKey)[k] = date})

\* C28: once all save requests for daily notes are answered, whatever the
\* order of their reads and writes of the store was, every date whose content
\* is stored stands exactly once in memories:daily:list.
C28_StoredDatesListedOnce ==
  AllAnswered =>
    \A date \in SaveDates :
      DailyKey(date) \in DOMAIN memories => TimesListed(memories, date) = 1

(***************************************************************************)
(* Concurrent reindex requests: POST /api/memories-enhanced, action        *)
(* reindex.  typed holds the requests with the place each has reached in   *)
(* its two loops, memories is the Redis store.                             *)
(***************************************************************************)

TagIndexKey(tag) == <<"t", "a", "g", "s", ":">> \o tag \o <<":", "m", "e", "m", "o", "r", "i", "e", "s">>

ContactIndexKey(contact) == <<"c", "o", "n", "t", "a", "c", "t", "s", ":">> \o toLowerCase(contact) \o <<":", "m", "e", "n", "t", "i", "o", "n", "s">>

ReindexPaths == {<<"m", "e", "m", "o", "r", "y", "/", "d", "1", ".", "m", "d">>, <<"m", "e", "m", "o", "r", "y", "/", "d", "2", ".", "m", "d">>}

ReindexContents == {<<"#", "a">>, <<"#", "b">>, <<"@", "A", "l", " ", "#", "a">>}

\* the place of a request that enters the loop over its tags at the k-th tag,
\* or, behind the last tag, the loop over its contacts at the first contact
AtTag(r, k) ==
  IF k <= Len(r.tags) THEN [r EXCEPT !.pc = "getTag", !.k = k]
  ELSE IF r.contacts # <<>> THEN [r EXCEPT !.pc = "getContact", !.k = 1]
  ELSE [r EXCEPT !.pc = "done"]

AtContact(r, k) ==
  IF k <= Len(r.contacts) THEN [r EXCEPT !.pc = "getContact", !.k = k]
  ELSE [r EXCEPT !.pc = "done"]

Answered(r, before) ==
  IF r.pc = "done" THEN [op |-> "reindex", arg |-> r.path] ELSE before

InitReindex ==
  /\ memories = <<>>
  /\ typed = <<>>
  /\ now = 0
  /\ out = NoCall

\* lines 219-223: the request arrives and its content is parsed
StartReindex ==
  /\ Len(typed) < MaxRequests
  /\ \E memoryPath \in ReindexPaths, content \in ReindexContents :
       typed' = Append(typed,
                  AtTag([path |-> memoryPath, content |-> content,
                         tags |-> parseMemoryContent(content).tags,
                         contacts |-> parseMemoryContent(content).contacts,
                         k |-> 1, pc |-> "start", list |-> <<>>], 1))
  /\ out' = Answered(typed'[Len(typed')], out)
  /\ UNCHANGED <<memories, now>>

\* lines 227-228: the list of the tag is read; a list with the path in it is
\* left as it is
GetTagMemories(i) ==
  /\ typed[i].pc = "getTag"
  /\ typed' = [typed EXCEPT ![i] =
       IF typed[i].path \in Range(RedisGetList(memories, TagIndexKey(typed[i].tags[typed[i].k])))
       THEN AtTag(typed[i], typed[i].k + 1)
       ELSE [typed[i] EXCEPT !.pc = "setTag",
                             !.list = RedisGetList(memories, TagIndexKey(typed[i].tags[typed[i].k]))]]
  /\ out' = Answered(typed'[i], out)
  /\ UNCHANGED <<memories, now>>

\* lines 229-230
SetTagMemories(i) ==
  /\ typed[i].pc = "setTag"
  /\ memories' = RedisSet(memories, TagIndexKey(typed[i].tags[typed[i].k]),
                          Append(typed[i].list, typed[i].path))
  /\ typed' = [typed EXCEPT ![i] = AtTag(typed[i], typed[i].k + 1)]
  /\ out' = Answered(typed'[i], out)
  /\ UNCHANGED now

\* lines 236-237
GetContactMemories(i) ==
  /\ typed[i].pc = "getContact"
  /\ typed' = [typed EXCEPT ![i] =
       IF typed[i].path \in Range(RedisGetList(memories, ContactIndexKey(typed[i].contacts[typed[i].k])))
       THEN AtContact(typed[i], typed[i].k + 1)
       ELSE [typed[i] EXCEPT !.pc = "setContact",
                             !.list = RedisGetList(memories, ContactIndexKey(typed[i].contacts[typed[i].k]))]]
  /\ out' = Answered(typed'[i], out)
  /\ UNCHANGED <<memories, now>>

\* lines 238-239
SetContactMemories(i) ==
  /\ typed[i].pc = "setContact"
  /\ memories' = RedisSet(memories, ContactIndexKey(typed[i].contacts[typed[i].k]),
                          Append(typed[i].list, typed[i].path))
  /\ typed' = [typed EXCEPT ![i] = AtContact(typed[i], typed[i].k + 1)]
  /\ out' = Answered(typed'[i], out)
  /\ UNCHANGED now

NextReindex ==
  \/ StartReindex
  \/ \E i \in 1..Len(typed) : GetTagMemories(i)
  \/ \E i \in 1..Len(typed) : SetTagMemories(i)
  \/ \E i \in 1..Len(typed) : GetContactMemories(i)
  \/ \E i \in 1..Len(typed) : SetContactMemories(i)

SpecReindex == InitReindex /\ [][NextReindex]_vars

IndexedTags == {<<"a">>, <<"b">>}

\* the requests for the path, and the content of the one that arrived last
RequestsFor(path) == {i \in 1..Len(typed) : typed[i].path = path}

LastReindexed(path) == typed[Max(RequestsFor(path))].content

HeldTimes(store, tag, path) ==
  Cardinality({k \in 1..Len(RedisGetList(store, TagIndexKey(tag))) :
                 RedisGetList(store, TagIndexKey(tag))[k] = path})

\* C29: once all reindex requests are answered, whatever the order of their
\* reads and writes of the store was, a path stands in tags:<t>:memories if
\* and only if the content reindexed last for it holds the tag t, and no list
\* holds a path twice.
C29_TagIndexExact ==
  AllAnswered =>
    \A path \in ReindexPaths, tag \in IndexedTags :
      /\ HeldTimes(memories, tag, path) <= 1
      /\ HeldTimes(memories, tag, path) = 1
           <=> /\ RequestsFor(path) # {}
               /\ tag \in Range(parseMemoryContent(LastReindexed(path)).tags)

\* the contacts and the tags parseMemoryContent finds in the notes of the window
ParsedContacts ==
  UNION {Range(parseMemoryContent(WindowNotes[k].content).contacts) : k \in 1..Len(WindowNotes)}

ParsedTags ==
  UNION {Range(parseMemoryContent(WindowNotes[k].content).tags) : k \in 1..Len(WindowNotes)}

\* C30: for a window of notes with at most 5 distinct contacts and at most 10
\* distinct tags, the names of topContacts are the contacts parseMemoryContent
\* finds in the notes of the window, and the names of topTags are the tags it
\* finds.
C30_SummaryAndParserSameEntities ==
  ( /\ out.op = "generateWeeklySummary"
    /\ Cardinality(ParsedContacts) <= 5
    /\ Cardinality(ParsedTags) <= 10 )
  => /\ Range(NamesOf(out.res.topContacts)) = ParsedContacts
     /\ Range(NamesOf(out.res.topTags)) = ParsedTags

====
